---- MODULE Spec2Model ----
(***************************************************************************)
(* Strategy coordination layer of the trading bot: the OCO coordinator     *)
(* (src/src/advanced/oco.py), the TWAP coordinator                         *)
(* (src/src/advanced/twap.py), the grid coordinator                        *)
(* (src/src/advanced/grid.py) and the primitive placers they call          *)
(* (src/src/limit_orders.py, src/src/market_orders.py), run against an     *)
(* exchange gateway whose orders fill on their own.                        *)
(*                                                                         *)
(* Every thread of the program is a small program counter; a step is one   *)
(* blocking gateway call together with the local statements around it.    *)
(***************************************************************************)
EXTENDS Integers, Sequences, FiniteSets, Bags, TLC

\* ------------------------------------------------------------------ bounds
MaxOCO == 2        \* place_oco_order calls that reach the exchange
MaxPrice == 2      \* prices are 1..MaxPrice
MaxJobs == 1       \* start_twap_order calls that register a job
MaxDuration == 2   \* duration_minutes and interval_minutes are 0..MaxDuration
MaxQty == 2        \* total_quantity is 1..MaxQty
MaxGridWork == 6   \* grid levels built by create_grid_strategy plus grid
                   \* levels visited by the loops of start_grid_strategy

Prices == 1..MaxPrice
Sides == {"BUY", "SELL"}

VARIABLES
    orders,        \* the exchange's book: order id -> [type, status]
    ocoPairs,      \* every oco_data dict ever built (the threads hold them)
    oco_orders,    \* OCOOrderHandler.oco_orders: oco_id -> index in ocoPairs
    ocoMon,        \* the _monitor_oco thread of each pair: pc and its locals
    ocoCancels,    \* per pair, the order ids cancel_order was invoked with
    ocoCall,       \* the place_oco_order call in progress
    ocoRet,        \* what place_oco_order, or a monitoring thread's
                   \* cancel_order call, returned or raised in the last step
    twapJobs,      \* every job dict ever built (the threads hold them)
    twap_jobs,     \* TWAPOrderHandler.twap_jobs: job_id -> index in twapJobs
    twapTask,      \* the _execute_twap thread of each job: pc and loop index
    twapHist,      \* per job: what the exchange and the callers saw happen
    twapCall,      \* the cancel_twap_job call in progress
    twapRet,       \* what start_twap_order / cancel_twap_job returned or
                   \* raised in the last step
    gridStrats,    \* every strategy dict ever built (the threads hold them)
    grid_strategies, \* GridOrderHandler.grid_strategies: grid_id -> index
    gridOrders,    \* the exchange's book of grid limit orders
    gridMon,       \* the _monitor_grid threads, a bag (they have no names):
                   \* strategy, pc and locals of each
    gridCall,      \* the start_/stop_grid_strategy call in progress
    gridRet        \* what the grid call of the last step returned or raised

ocoVars == <<orders, ocoPairs, oco_orders, ocoMon, ocoCancels, ocoCall, ocoRet>>
twapVars == <<twapJobs, twap_jobs, twapTask, twapHist, twapCall, twapRet>>
gridVars == <<gridStrats, grid_strategies, gridOrders, gridMon, gridCall,
              gridRet>>
vars == <<orders, ocoPairs, oco_orders, ocoMon, ocoCancels, ocoCall, ocoRet,
          twapJobs, twap_jobs, twapTask, twapHist, twapCall, twapRet,
          gridStrats, grid_strategies, gridOrders, gridMon, gridCall,
          gridRet>>

\* ------------------------------------------------------------- helpers
MaxOf(S) == CHOOSE x \in S : \A y \in S : y <= x

\* f"..._{int(time.time())}": the clock is monotone, so a new id is the id
\* of the latest registration (same second) or a later one.
NewIds(registry) ==
    IF DOMAIN registry = {} THEN {1}
    ELSE {MaxOf(DOMAIN registry), MaxOf(DOMAIN registry) + 1}

Put(registry, id, v) ==
    [k \in DOMAIN registry \cup {id} |-> IF k = id THEN v ELSE registry[k]]

IdleCall == [pc |-> "idle", side |-> "-", limit_price |-> 0, stop_price |-> 0,
             limit_order |-> 0]
\* price: the current price place_stop_limit_order validated against (0:
\* it raised a gateway error); cancel: what the cancel_order call of a
\* monitoring thread returned
NoRet == [result |-> "none", leg |-> "-", bad |-> FALSE, price |-> 0,
          cancel |-> "-"]

TwapIdle == [pc |-> "idle", job |-> 0, id |-> 0]
TwapNoRet == [op |-> "none", id |-> 0, result |-> "-", total_quantity |-> 0,
              duration_minutes |-> 0, interval_minutes |-> 0]

\* visited: the levels the call has made its gateway call for so far
GridIdle == [pc |-> "idle", id |-> 0, strat |-> 0, k |-> 0, price |-> 0,
             failed |-> FALSE, visited |-> {}]
GridNoRet == [op |-> "none", id |-> 0, result |-> "-", lower_price |-> 0,
              upper_price |-> 0, grid_count |-> 0, total_quantity |-> 0,
              price |-> 0, failed |-> FALSE, visited |-> {}]

\* float arithmetic, kept exact: a number is the fraction num/den in lowest
\* terms with den > 0
RECURSIVE Gcd(_, _)
Gcd(a, b) == IF b = 0 THEN a ELSE Gcd(b, a % b)

Frac(n, d) ==
    LET g == Gcd(IF n < 0 THEN -n ELSE n, d)
    IN  [num |-> n \div g, den |-> d \div g]

FracAdd(a, b) == Frac(a.num * b.den + b.num * a.den, a.den * b.den)
FracSub(a, b) == Frac(a.num * b.den - b.num * a.den, a.den * b.den)
FracMul(a, b) == Frac(a.num * b.num, a.den * b.den)
FracLess(a, b) == a.num * b.den < b.num * a.den

\* the price ordering the OCO design asks for (checked by the CLI only)
BadOrdering(side, limit_price, stop_price) ==
    IF side = "SELL" THEN limit_price <= stop_price
    ELSE limit_price >= stop_price

\* StopPriceRejected with the comparisons strict: a stop price equal to the
\* current price passes
StopPriceRejectedOnlyBeyond(side, stop_price, current_price) ==
    \/ side = "BUY" /\ stop_price < current_price
    \/ side = "SELL" /\ stop_price > current_price

\* LimitOrderHandler._validate_stop_price: TRUE when it raises ValueError
StopPriceRejected(side, stop_price, current_price) ==
    \/ side = "BUY" /\ stop_price <= current_price
    \/ side = "SELL" /\ stop_price >= current_price

\* orders of the book that belong to no pair: legs of a place call that
\* failed half-way
Orphans == {o \in 1..Len(orders) :
              /\ \A p \in 1..Len(ocoPairs) :
                    ocoPairs[p].limit_order # o /\ ocoPairs[p].stop_order # o
              /\ ocoCall.limit_order # o}

Init ==
    /\ orders = <<>>
    /\ ocoPairs = <<>>
    /\ oco_orders = <<>>
    /\ ocoMon = <<>>
    /\ ocoCancels = <<>>
    /\ ocoCall = IdleCall
    /\ ocoRet = NoRet
    /\ twapJobs = <<>>
    /\ twap_jobs = <<>>
    /\ twapTask = <<>>
    /\ twapHist = <<>>
    /\ twapCall = TwapIdle
    /\ twapRet = TwapNoRet
    /\ gridStrats = <<>>
    /\ grid_strategies = <<>>
    /\ gridOrders = <<>>
    /\ gridMon = EmptyBag
    /\ gridCall = GridIdle
    /\ gridRet = GridNoRet

\* ------------------------------------------------------------ exchange
\* a resting order fills at the exchange
ExchangeFill(o) ==
    /\ orders[o].status = "NEW"
    /\ orders' = [orders EXCEPT ![o].status = "FILLED"]
    /\ ocoRet' = NoRet
    /\ UNCHANGED <<ocoPairs, oco_orders, ocoMon, ocoCancels, ocoCall>>
    /\ UNCHANGED <<twapVars, gridVars>>

\* CancelOrder without its try/except: the gateway's error reaches the
\* caller
CancelOrderReraises(o) ==
    {[book |-> orders, result |-> "GatewayError"]} \cup
    (IF orders[o].status = "NEW"
     THEN {[book |-> [orders EXCEPT ![o].status = "CANCELED"],
            result |-> "True"]}
     ELSE {})

\* LimitOrderHandler.cancel_order(order_id), its outcomes as the book it
\* leaves and the value it returns: futures_cancel_order raises (always
\* possible, and certain for an order that is no longer resting), which is
\* caught and gives False, or it cancels the resting order, which gives True
CancelOrder(o) ==
    {[book |-> orders, result |-> "False"]} \cup
    (IF orders[o].status = "NEW"
     THEN {[book |-> [orders EXCEPT ![o].status = "CANCELED"],
            result |-> "True"]}
     ELSE {})

\* --------------------------------------------------- OCO: place_oco_order
\* first half: limit_order_handler.place_order (the limit leg)
OcoPlaceLimitLeg(side, limit_price, stop_price) ==
    /\ ocoCall.pc = "idle"
    /\ Len(ocoPairs) + Cardinality(Orphans) < MaxOCO
    /\ \/ \* the ticker or the create call raises: re-raised to the caller
          /\ ocoRet' = [NoRet EXCEPT !.result = "GatewayError",
                          !.leg = "limit",
                          !.bad = BadOrdering(side, limit_price, stop_price)]
          /\ UNCHANGED <<orders, ocoCall>>
       \/ /\ orders' = Append(orders, [type |-> "LIMIT", status |-> "NEW"])
          /\ ocoCall' = [pc |-> "stop_leg", side |-> side,
                         limit_price |-> limit_price, stop_price |-> stop_price,
                         limit_order |-> Len(orders) + 1]
          /\ ocoRet' = NoRet
    /\ UNCHANGED <<ocoPairs, oco_orders, ocoMon, ocoCancels>>
    /\ UNCHANGED <<twapVars, gridVars>>

\* OcoStopLegFailed with a clean-up added: the limit leg is cancelled
\* before the error is re-raised
OcoStopLegFailedCancelsLimit(error, current_price) ==
    /\ ocoRet' = [result |-> error, leg |-> "stop",
                  bad |-> BadOrdering(ocoCall.side, ocoCall.limit_price,
                                      ocoCall.stop_price),
                  price |-> current_price, cancel |-> "-"]
    /\ ocoCall' = IdleCall
    /\ orders' = [orders EXCEPT ![ocoCall.limit_order].status =
                    IF @ = "NEW" THEN "CANCELED" ELSE @]
    /\ UNCHANGED <<ocoPairs, oco_orders, ocoMon, ocoCancels>>

\* what place_oco_order does when place_stop_limit_order raised
OcoStopLegFailed(error, current_price) ==
    /\ ocoRet' = [result |-> error, leg |-> "stop",
                  bad |-> BadOrdering(ocoCall.side, ocoCall.limit_price,
                                      ocoCall.stop_price),
                  price |-> current_price, cancel |-> "-"]
    /\ ocoCall' = IdleCall
    /\ UNCHANGED <<orders, ocoPairs, oco_orders, ocoMon, ocoCancels>>

\* second half: place_stop_limit_order, then register and start monitoring
OcoPlaceStopLeg ==
    /\ ocoCall.pc = "stop_leg"
    /\ UNCHANGED <<twapVars, gridVars>>
    /\ \/ \* the ticker or the create call raises
          OcoStopLegFailed("GatewayError", 0)
       \/ \E current_price \in Prices :
            IF StopPriceRejected(ocoCall.side, ocoCall.stop_price, current_price)
            THEN OcoStopLegFailed("ValueError", current_price)
            ELSE \E oco_id \in NewIds(oco_orders) :
                   /\ orders' = Append(orders, [type |-> "STOP", status |-> "NEW"])
                   /\ ocoPairs' = Append(ocoPairs,
                        [id |-> oco_id,
                         limit_order |-> ocoCall.limit_order,
                         stop_order |-> Len(orders) + 1,
                         status |-> "ACTIVE"])
                   /\ oco_orders' = Put(oco_orders, oco_id, Len(ocoPairs) + 1)
                   /\ ocoMon' = Append(ocoMon,
                        [pc |-> "start", limit_status |-> "-", stop_status |-> "-"])
                   /\ ocoCancels' = Append(ocoCancels, <<>>)
                   /\ ocoRet' = [result |-> "ok", leg |-> "-",
                                 bad |-> BadOrdering(ocoCall.side,
                                           ocoCall.limit_price, ocoCall.stop_price),
                                 price |-> current_price, cancel |-> "-"]
                   /\ ocoCall' = IdleCall

\* ------------------------------------------------------ OCO: _monitor_oco
\* the loop test while oco_data['status'] == 'ACTIVE', at thread start and
\* after each time.sleep(5)
MonWhile(p) ==
    /\ ocoMon[p].pc \in {"start", "sleep"}
    /\ ocoMon' = [ocoMon EXCEPT ![p].pc =
                    IF ocoPairs[p].status = "ACTIVE" THEN "get_limit" ELSE "done"]
    /\ ocoRet' = NoRet
    /\ UNCHANGED <<orders, ocoPairs, oco_orders, ocoCancels, ocoCall>>
    /\ UNCHANGED <<twapVars, gridVars>>

\* limit_status = futures_get_order(limit leg); an exception ends the loop
\* by the break of line 68 (pc "raised")
MonGetLimit(p) ==
    /\ ocoMon[p].pc = "get_limit"
    /\ \/ ocoMon' = [ocoMon EXCEPT ![p].pc = "get_stop",
                       ![p].limit_status = orders[ocoPairs[p].limit_order].status]
       \/ ocoMon' = [ocoMon EXCEPT ![p].pc = "raised"]
    /\ ocoRet' = NoRet
    /\ UNCHANGED <<orders, ocoPairs, oco_orders, ocoCancels, ocoCall>>
    /\ UNCHANGED <<twapVars, gridVars>>

\* MonGetStop as a retry: the error is logged and the pair is polled
\* again after the sleep
MonGetStopRetries(p) ==
    /\ ocoMon[p].pc = "get_stop"
    /\ \/ ocoMon' = [ocoMon EXCEPT ![p].pc = "decide",
                       ![p].stop_status = orders[ocoPairs[p].stop_order].status]
       \/ ocoMon' = [ocoMon EXCEPT ![p].pc = "sleep", ![p].limit_status = "-"]
    /\ ocoRet' = NoRet
    /\ UNCHANGED <<orders, ocoPairs, oco_orders, ocoCancels, ocoCall>>
    /\ UNCHANGED <<twapVars, gridVars>>

\* stop_status = futures_get_order(stop leg); an exception ends the loop
\* by the break of line 68 (pc "raised")
MonGetStop(p) ==
    /\ ocoMon[p].pc = "get_stop"
    /\ \/ ocoMon' = [ocoMon EXCEPT ![p].pc = "decide",
                       ![p].stop_status = orders[ocoPairs[p].stop_order].status]
       \/ ocoMon' = [ocoMon EXCEPT ![p].pc = "raised", ![p].limit_status = "-"]
    /\ ocoRet' = NoRet
    /\ UNCHANGED <<orders, ocoPairs, oco_orders, ocoCancels, ocoCall>>
    /\ UNCHANGED <<twapVars, gridVars>>

\* LegToCancel with the branches' targets swapped: the filled leg itself
LegToCancelFilledLeg(p) ==
    IF ocoMon[p].limit_status = "FILLED" THEN ocoPairs[p].limit_order
    ELSE IF ocoMon[p].stop_status = "FILLED" THEN ocoPairs[p].stop_order
    ELSE 0

\* the leg the if/elif of one poll cancels: 0 when neither branch is taken
LegToCancel(p) ==
    IF ocoMon[p].limit_status = "FILLED" THEN ocoPairs[p].stop_order
    ELSE IF ocoMon[p].stop_status = "FILLED" THEN ocoPairs[p].limit_order
    ELSE 0

\* MonDecide without its elif branch: only a filled limit leg ends the
\* monitoring
MonDecideLimitOnly(p) ==
    /\ ocoMon[p].pc = "decide"
    /\ IF ocoMon[p].limit_status = "FILLED"
       THEN \E r \in CancelOrder(ocoPairs[p].stop_order) :
            /\ orders' = r.book
            /\ ocoCancels' = [ocoCancels EXCEPT
                                ![p] = Append(@, ocoPairs[p].stop_order)]
            /\ ocoMon' = [ocoMon EXCEPT
                 ![p].pc = IF r.result \notin {"True", "False"} THEN "raised"
                           ELSE "set_limit_filled",
                 ![p].limit_status = "-", ![p].stop_status = "-"]
            /\ ocoRet' = [NoRet EXCEPT !.cancel = r.result]
       ELSE /\ ocoMon' = [ocoMon EXCEPT ![p].pc = "sleep",
                            ![p].limit_status = "-", ![p].stop_status = "-"]
            /\ ocoRet' = NoRet
            /\ UNCHANGED <<orders, ocoCancels>>
    /\ UNCHANGED <<ocoPairs, oco_orders, ocoCall>>
    /\ UNCHANGED <<twapVars, gridVars>>

\* MonDecide with the branches in the other order: the stop leg is tested
\* first
MonDecideStopFirst(p) ==
    /\ ocoMon[p].pc = "decide"
    /\ IF LegToCancel(p) # 0
       THEN LET leg == IF ocoMon[p].stop_status = "FILLED"
                       THEN ocoPairs[p].limit_order ELSE ocoPairs[p].stop_order
            IN  \E r \in CancelOrder(leg) :
                /\ orders' = r.book
                /\ ocoCancels' = [ocoCancels EXCEPT ![p] = Append(@, leg)]
                /\ ocoMon' = [ocoMon EXCEPT
                     ![p].pc = IF r.result \notin {"True", "False"} THEN "raised"
                               ELSE IF ocoMon[p].stop_status = "FILLED"
                               THEN "set_stop_filled" ELSE "set_limit_filled",
                     ![p].limit_status = "-", ![p].stop_status = "-"]
                /\ ocoRet' = [NoRet EXCEPT !.cancel = r.result]
       ELSE /\ ocoMon' = [ocoMon EXCEPT ![p].pc = "sleep",
                            ![p].limit_status = "-", ![p].stop_status = "-"]
            /\ ocoRet' = NoRet
            /\ UNCHANGED <<orders, ocoCancels>>
    /\ UNCHANGED <<ocoPairs, oco_orders, ocoCall>>
    /\ UNCHANGED <<twapVars, gridVars>>

\* the if/elif on the two statuses, up to and including cancel_order; an
\* exception out of cancel_order would end the loop like any other
MonDecide(p) ==
    /\ ocoMon[p].pc = "decide"
    /\ IF LegToCancel(p) # 0
       THEN \E r \in CancelOrder(LegToCancel(p)) :
            /\ orders' = r.book
            /\ ocoCancels' = [ocoCancels EXCEPT ![p] = Append(@, LegToCancel(p))]
            /\ ocoMon' = [ocoMon EXCEPT
                 ![p].pc = IF r.result \notin {"True", "False"} THEN "raised"
                           ELSE IF ocoMon[p].limit_status = "FILLED"
                           THEN "set_limit_filled" ELSE "set_stop_filled",
                 ![p].limit_status = "-", ![p].stop_status = "-"]
            /\ ocoRet' = [NoRet EXCEPT !.cancel = r.result]
       ELSE /\ ocoMon' = [ocoMon EXCEPT ![p].pc = "sleep",
                            ![p].limit_status = "-", ![p].stop_status = "-"]
            /\ ocoRet' = NoRet
            /\ UNCHANGED <<orders, ocoCancels>>
    /\ UNCHANGED <<ocoPairs, oco_orders, ocoCall>>
    /\ UNCHANGED <<twapVars, gridVars>>

\* oco_data['status'] = 'LIMIT_FILLED' | 'STOP_FILLED'; break
MonSetStatus(p) ==
    /\ ocoMon[p].pc \in {"set_limit_filled", "set_stop_filled"}
    /\ ocoPairs' = [ocoPairs EXCEPT ![p].status =
                      IF ocoMon[p].pc = "set_limit_filled"
                      THEN "LIMIT_FILLED" ELSE "STOP_FILLED"]
    /\ ocoMon' = [ocoMon EXCEPT ![p].pc = "done"]
    /\ ocoRet' = NoRet
    /\ UNCHANGED <<orders, oco_orders, ocoCancels, ocoCall>>
    /\ UNCHANGED <<twapVars, gridVars>>

NextOCO ==
    \/ \E o \in 1..Len(orders) : ExchangeFill(o)
    \/ \E side \in Sides, limit_price \in Prices, stop_price \in Prices :
         OcoPlaceLimitLeg(side, limit_price, stop_price)
    \/ OcoPlaceStopLeg
    \/ \E p \in 1..Len(ocoPairs) :
         \/ MonWhile(p)
         \/ MonGetLimit(p)
         \/ MonGetStop(p)
         \/ MonDecide(p)
         \/ MonSetStatus(p)

SpecOCO == Init /\ [][NextOCO]_vars

\* one step of the _monitor_oco thread of pair p
MonStep(p) ==
    /\ p \in 1..Len(ocoPairs)
    /\ \/ MonWhile(p)
       \/ MonGetLimit(p)
       \/ MonGetStop(p)
       \/ MonDecide(p)
       \/ MonSetStatus(p)

\* the OCO coordinator with its threads scheduled: a started monitoring
\* thread that can take a step eventually takes one, every gateway call and
\* every time.sleep(5) returning
SpecOCOFair ==
    Init /\ [][NextOCO]_vars /\ \A p \in 1..MaxOCO : WF_vars(MonStep(p))

\* ------------------------------------------------ TWAP: start_twap_order
\* total_quantity / parts is a true division: the quotient is kept exact,
\* as the fraction num/den
QuotientFloored(total_quantity, parts) ==
    [num |-> total_quantity \div parts, den |-> 1]

Quotient(total_quantity, parts) == [num |-> total_quantity, den |-> parts]

\* the exception start_twap_order raises on these arguments, "ok" if none
StartOutcome(duration_minutes, interval_minutes) ==
    IF duration_minutes <= 0 \/ interval_minutes <= 0 THEN "ValueError"
    ELSE IF duration_minutes \div interval_minutes = 0 THEN "ZeroDivisionError"
    ELSE "ok"

NewJob(job_id, total_quantity, duration_minutes, interval_minutes) ==
    [id |-> job_id,
     total_quantity |-> total_quantity,
     parts |-> duration_minutes \div interval_minutes,
     qty_per_part |-> Quotient(total_quantity,
                               duration_minutes \div interval_minutes),
     completed |-> 0,
     status |-> "RUNNING",
     orders |-> <<>>,
     error |-> FALSE]

TwapStart(total_quantity, duration_minutes, interval_minutes) ==
    /\ twapCall.pc = "idle"
    /\ Len(twapJobs) < MaxJobs
    /\ IF StartOutcome(duration_minutes, interval_minutes) # "ok"
       THEN /\ twapRet' = [op |-> "start", id |-> 0,
                           result |-> StartOutcome(duration_minutes, interval_minutes),
                           total_quantity |-> total_quantity,
                           duration_minutes |-> duration_minutes,
                           interval_minutes |-> interval_minutes]
            /\ UNCHANGED <<twapJobs, twap_jobs, twapTask, twapHist>>
       ELSE \E job_id \in NewIds(twap_jobs) :
              /\ twapJobs' = Append(twapJobs,
                   NewJob(job_id, total_quantity, duration_minutes, interval_minutes))
              /\ twap_jobs' = Put(twap_jobs, job_id, Len(twapJobs) + 1)
              /\ twapTask' = Append(twapTask, [pc |-> "start", i |-> 0])
              /\ twapHist' = Append(twapHist,
                   [submitted |-> 0, cancelled |-> FALSE, late |-> 0,
                    lateCheck |-> FALSE, raised |-> FALSE, sleeps |-> 0,
                    queried |-> 0])
              /\ twapRet' = [op |-> "start", id |-> job_id, result |-> "ok",
                             total_quantity |-> total_quantity,
                             duration_minutes |-> duration_minutes,
                             interval_minutes |-> interval_minutes]
    /\ UNCHANGED twapCall
    /\ UNCHANGED <<ocoVars, gridVars>>

\* ------------------------------------------------- TWAP: cancel_twap_job
\* TwapCancelCheck without the test of the status
TwapCancelCheckAnyStatus(job_id) ==
    /\ twapCall.pc = "idle"
    /\ IF job_id \in DOMAIN twap_jobs
       THEN /\ twapCall' = [pc |-> "cancel_set", job |-> twap_jobs[job_id],
                            id |-> job_id]
            /\ twapRet' = TwapNoRet
       ELSE /\ twapRet' = [TwapNoRet EXCEPT !.op = "cancel", !.id = job_id,
                                            !.result = "False"]
            /\ UNCHANGED twapCall
    /\ UNCHANGED <<twapJobs, twap_jobs, twapTask, twapHist>>
    /\ UNCHANGED <<ocoVars, gridVars>>

\* if job_id in self.twap_jobs ... if job['status'] == 'RUNNING'
\* (no lock is held: the execution thread may run between this read of
\* the status and the write in TwapCancelSet)
TwapCancelCheck(job_id) ==
    /\ twapCall.pc = "idle"
    /\ IF job_id \in DOMAIN twap_jobs
          /\ twapJobs[twap_jobs[job_id]].status = "RUNNING"
       THEN /\ twapCall' = [pc |-> "cancel_set", job |-> twap_jobs[job_id],
                            id |-> job_id]
            /\ twapRet' = TwapNoRet
       ELSE /\ twapRet' = [TwapNoRet EXCEPT !.op = "cancel", !.id = job_id,
                                            !.result = "False"]
            /\ UNCHANGED twapCall
    /\ UNCHANGED <<twapJobs, twap_jobs, twapTask, twapHist>>
    /\ UNCHANGED <<ocoVars, gridVars>>

\* job['status'] = 'CANCELLED'; return True
TwapCancelSet ==
    /\ twapCall.pc = "cancel_set"
    /\ twapJobs' = [twapJobs EXCEPT ![twapCall.job].status = "CANCELLED"]
    /\ twapHist' = [twapHist EXCEPT ![twapCall.job].cancelled = TRUE]
    /\ twapRet' = [TwapNoRet EXCEPT !.op = "cancel", !.id = twapCall.id,
                                     !.result = "True"]
    /\ twapCall' = TwapIdle
    /\ UNCHANGED <<twap_jobs, twapTask>>
    /\ UNCHANGED <<ocoVars, gridVars>>

\* --------------------------------------------------- TWAP: _execute_twap
\* TwapCheck without the test of the status: every slice is placed
TwapCheckIgnoresStatus(j) ==
    /\ twapTask[j].pc \in {"start", "sleep"}
    /\ twapTask' = [twapTask EXCEPT ![j].pc = "submit"]
    /\ twapHist' = [twapHist EXCEPT ![j].lateCheck = @ \/ twapHist[j].cancelled]
    /\ twapRet' = TwapNoRet
    /\ UNCHANGED <<twapJobs, twap_jobs, twapCall>>
    /\ UNCHANGED <<ocoVars, gridVars>>

\* TwapCheck with a wait in place of the break: a job that is not RUNNING
\* is looked at again later
TwapCheckWaits(j) ==
    /\ twapTask[j].pc \in {"start", "sleep"}
    /\ IF twapJobs[j].status # "RUNNING"
       THEN /\ twapTask' = [twapTask EXCEPT ![j].pc = "sleep"]
            /\ UNCHANGED <<twapJobs, twapHist>>
       ELSE /\ twapTask' = [twapTask EXCEPT ![j].pc = "submit"]
            /\ twapHist' = [twapHist EXCEPT ![j].lateCheck =
                              @ \/ twapHist[j].cancelled]
            /\ UNCHANGED twapJobs
    /\ twapRet' = TwapNoRet
    /\ UNCHANGED <<twap_jobs, twapCall>>
    /\ UNCHANGED <<ocoVars, gridVars>>

\* the head of the for loop, at thread start and after each sleep:
\* if job['status'] != 'RUNNING': break, which falls through to
\* job['status'] = 'COMPLETED'
TwapCheck(j) ==
    /\ twapTask[j].pc \in {"start", "sleep"}
    /\ IF twapJobs[j].status # "RUNNING"
       THEN /\ twapJobs' = [twapJobs EXCEPT ![j].status = "COMPLETED"]
            /\ twapTask' = [twapTask EXCEPT ![j].pc = "done"]
            /\ UNCHANGED twapHist
       ELSE /\ twapTask' = [twapTask EXCEPT ![j].pc = "submit"]
            /\ twapHist' = [twapHist EXCEPT ![j].lateCheck =
                              @ \/ twapHist[j].cancelled]
            /\ UNCHANGED twapJobs
    /\ twapRet' = TwapNoRet
    /\ UNCHANGED <<twap_jobs, twapCall>>
    /\ UNCHANGED <<ocoVars, gridVars>>

\* TwapFail as a retry: the error is logged and the slice is tried again
TwapFailRetries(j) ==
    /\ twapJobs' = [twapJobs EXCEPT ![j].error = TRUE]
    /\ twapTask' = [twapTask EXCEPT ![j].pc = "submit"]
    /\ twapHist' = [twapHist EXCEPT ![j].raised = TRUE,
          ![j].queried = IF twapTask[j].pc = "query" THEN @ + 1 ELSE @]

\* except Exception: job['status'] = 'FAILED'; job['error'] = str(e)
\* (queried counts the futures_get_order calls made for the job: the call
\* that raised is one)
TwapFail(j) ==
    /\ twapJobs' = [twapJobs EXCEPT ![j].status = "FAILED", ![j].error = TRUE]
    /\ twapTask' = [twapTask EXCEPT ![j].pc = "done"]
    /\ twapHist' = [twapHist EXCEPT ![j].raised = TRUE,
          ![j].queried = IF twapTask[j].pc = "query" THEN @ + 1 ELSE @]

\* MarketOrderHandler.place_order, up to futures_create_order
TwapSubmit(j) ==
    /\ twapTask[j].pc = "submit"
    /\ \/ TwapFail(j)
       \/ /\ twapHist' = [twapHist EXCEPT ![j].submitted = @ + 1,
                 ![j].late = IF twapHist[j].cancelled THEN @ + 1 ELSE @]
          /\ twapTask' = [twapTask EXCEPT ![j].pc = "query"]
          /\ UNCHANGED twapJobs
    /\ twapRet' = TwapNoRet
    /\ UNCHANGED <<twap_jobs, twapCall>>
    /\ UNCHANGED <<ocoVars, gridVars>>

\* the job after orders.append(order); completed += 1, and after the
\* last slice the end of the loop: status = 'COMPLETED'
JobAfterSlice(job, last) ==
    [job EXCEPT !.orders = Append(@, job.qty_per_part),
                !.completed = @ + 1,
                !.status = IF last THEN "COMPLETED" ELSE @]

\* TwapQuery with the loop running one slice too many (range(parts + 1))
TwapQueryOneMoreSlice(j) ==
    /\ twapTask[j].pc = "query"
    /\ \/ TwapFail(j)
       \/ /\ twapJobs' = [twapJobs EXCEPT ![j] =
                 JobAfterSlice(@, twapTask[j].i >= twapJobs[j].parts)]
          /\ twapTask' = [twapTask EXCEPT
                 ![j].pc = IF twapTask[j].i < twapJobs[j].parts
                           THEN "sleep" ELSE "done",
                 ![j].i = @ + 1]
          /\ twapHist' = [twapHist EXCEPT ![j].queried = @ + 1,
                 ![j].sleeps =
                   IF twapTask[j].i < twapJobs[j].parts THEN @ + 1 ELSE @]
    /\ twapRet' = TwapNoRet
    /\ UNCHANGED <<twap_jobs, twapCall>>
    /\ UNCHANGED <<ocoVars, gridVars>>

\* TwapQuery with time.sleep after every slice, the last one included
TwapQuerySleepsAfterLast(j) ==
    /\ twapTask[j].pc = "query"
    /\ \/ TwapFail(j)
       \/ /\ twapJobs' = [twapJobs EXCEPT ![j] =
                 JobAfterSlice(@, twapTask[j].i >= twapJobs[j].parts - 1)]
          /\ twapTask' = [twapTask EXCEPT
                 ![j].pc = IF twapTask[j].i < twapJobs[j].parts - 1
                           THEN "sleep" ELSE "done",
                 ![j].i = @ + 1]
          /\ twapHist' = [twapHist EXCEPT ![j].queried = @ + 1,
                                           ![j].sleeps = @ + 1]
    /\ twapRet' = TwapNoRet
    /\ UNCHANGED <<twap_jobs, twapCall>>
    /\ UNCHANGED <<ocoVars, gridVars>>

\* TwapQuery with a retry inside place_order: when futures_get_order
\* raises, the order is queried again
TwapQueryRetries(j) ==
    /\ twapTask[j].pc = "query"
    /\ \/ /\ twapHist' = [twapHist EXCEPT ![j].queried = @ + 1]
          /\ twapHist[j].queried <= twapHist[j].submitted
          /\ UNCHANGED <<twapJobs, twapTask>>
       \/ /\ twapJobs' = [twapJobs EXCEPT ![j] =
                 JobAfterSlice(@, twapTask[j].i >= twapJobs[j].parts - 1)]
          /\ twapTask' = [twapTask EXCEPT
                 ![j].pc = IF twapTask[j].i < twapJobs[j].parts - 1
                           THEN "sleep" ELSE "done",
                 ![j].i = @ + 1]
          /\ twapHist' = [twapHist EXCEPT ![j].queried = @ + 1,
                 ![j].sleeps =
                   IF twapTask[j].i < twapJobs[j].parts - 1 THEN @ + 1 ELSE @]
    /\ twapRet' = TwapNoRet
    /\ UNCHANGED <<twap_jobs, twapCall>>
    /\ UNCHANGED <<ocoVars, gridVars>>

\* MarketOrderHandler.place_order from futures_get_order on, then the
\* rest of the loop body; sleeps counts the calls of time.sleep, queried
\* those of futures_get_order
TwapQuery(j) ==
    /\ twapTask[j].pc = "query"
    /\ \/ TwapFail(j)
       \/ /\ twapJobs' = [twapJobs EXCEPT ![j] =
                 JobAfterSlice(@, twapTask[j].i >= twapJobs[j].parts - 1)]
          /\ twapTask' = [twapTask EXCEPT
                 ![j].pc = IF twapTask[j].i < twapJobs[j].parts - 1
                           THEN "sleep" ELSE "done",
                 ![j].i = @ + 1]
          /\ twapHist' = [twapHist EXCEPT ![j].queried = @ + 1,
                 ![j].sleeps =
                   IF twapTask[j].i < twapJobs[j].parts - 1 THEN @ + 1 ELSE @]
    /\ twapRet' = TwapNoRet
    /\ UNCHANGED <<twap_jobs, twapCall>>
    /\ UNCHANGED <<ocoVars, gridVars>>

NextTWAP ==
    \/ \E total_quantity \in 1..MaxQty, duration_minutes \in 0..MaxDuration,
          interval_minutes \in 0..MaxDuration :
         TwapStart(total_quantity, duration_minutes, interval_minutes)
    \/ \E job_id \in 1..(Len(twapJobs) + 1) : TwapCancelCheck(job_id)
    \/ TwapCancelSet
    \/ \E j \in 1..Len(twapJobs) :
         \/ TwapCheck(j)
         \/ TwapSubmit(j)
         \/ TwapQuery(j)

SpecTWAP == Init /\ [][NextTWAP]_vars

\* one step of the _execute_twap thread of job j
TwapTaskStep(j) ==
    /\ j \in 1..Len(twapJobs)
    /\ \/ TwapCheck(j)
       \/ TwapSubmit(j)
       \/ TwapQuery(j)

\* the TWAP coordinator with its threads scheduled: a started thread
\* (threading.Thread(...).start()) that can take a step eventually takes
\* one, every gateway call and every time.sleep returning
SpecTWAPFair ==
    Init /\ [][NextTWAP]_vars /\ \A j \in 1..MaxJobs : WF_vars(TwapTaskStep(j))

\* ------------------------------------------ grid: create_grid_strategy
\* the exception create_grid_strategy raises on these arguments, "ok" if
\* none
\* CreateOutcome letting equal prices through (lower_price > upper_price)
CreateOutcomeEqualPrices(lower_price, upper_price, grid_count) ==
    IF grid_count < 2 \/ lower_price > upper_price THEN "ValueError" ELSE "ok"

CreateOutcome(lower_price, upper_price, grid_count) ==
    IF grid_count < 2 \/ lower_price >= upper_price THEN "ValueError" ELSE "ok"

\* GridLevels with the side split one level too high (i <= grid_count // 2)
GridLevelsSplitHigh(lower_price, upper_price, grid_count, total_quantity) ==
    LET price_step == Frac(upper_price - lower_price, grid_count - 1)
        quantity_per_level == Frac(total_quantity, grid_count)
    IN  [k \in 1..grid_count |->
            [price |-> FracAdd(Frac(lower_price, 1),
                               FracMul(Frac(k - 1, 1), price_step)),
             quantity |-> quantity_per_level,
             side |-> IF k - 1 <= grid_count \div 2 THEN "BUY" ELSE "SELL",
             order_id |-> 0,
             status |-> "PENDING"]]

\* GridLevels with the price step (upper - lower) / grid_count
GridLevelsShortStep(lower_price, upper_price, grid_count, total_quantity) ==
    LET price_step == Frac(upper_price - lower_price, grid_count)
        quantity_per_level == Frac(total_quantity, grid_count)
    IN  [k \in 1..grid_count |->
            [price |-> FracAdd(Frac(lower_price, 1),
                               FracMul(Frac(k - 1, 1), price_step)),
             quantity |-> quantity_per_level,
             side |-> IF k - 1 < grid_count \div 2 THEN "BUY" ELSE "SELL",
             order_id |-> 0,
             status |-> "PENDING"]]

\* the loop that builds grid_levels; level i of the code is element i + 1,
\* order_id None is 0
GridLevels(lower_price, upper_price, grid_count, total_quantity) ==
    LET price_step == Frac(upper_price - lower_price, grid_count - 1)
        quantity_per_level == Frac(total_quantity, grid_count)
    IN  [k \in 1..grid_count |->
            [price |-> FracAdd(Frac(lower_price, 1),
                               FracMul(Frac(k - 1, 1), price_step)),
             quantity |-> quantity_per_level,
             side |-> IF k - 1 < grid_count \div 2 THEN "BUY" ELSE "SELL",
             order_id |-> 0,
             status |-> "PENDING"]]

\* NewStrategy registered as RUNNING, with every level counted active
NewStrategyRunning(grid_id, lower_price, upper_price, grid_count, total_quantity) ==
    [id |-> grid_id,
     grid_levels |-> GridLevels(lower_price, upper_price, grid_count,
                                total_quantity),
     status |-> "RUNNING",
     active_orders |-> grid_count,
     total_trades |-> 0,
     profit_loss |-> Frac(0, 1)]

NewStrategy(grid_id, lower_price, upper_price, grid_count, total_quantity) ==
    [id |-> grid_id,
     grid_levels |-> GridLevels(lower_price, upper_price, grid_count,
                                total_quantity),
     status |-> "CREATED",
     active_orders |-> 0,
     total_trades |-> 0,
     profit_loss |-> Frac(0, 1)]

\* the levels built so far plus the levels the start loops went over (each
\* start that got past the ticker has a thread in gridMon)
RECURSIVE LevelsBuilt(_)
LevelsBuilt(strats) ==
    IF strats = <<>> THEN 0
    ELSE Len(Head(strats).grid_levels) + LevelsBuilt(Tail(strats))

RECURSIVE LevelsVisited(_)
LevelsVisited(threads) ==
    IF threads = {} THEN 0
    ELSE LET th == CHOOSE x \in threads : TRUE
         IN  CopiesIn(th, gridMon) * Len(gridStrats[th.strat].grid_levels)
               + LevelsVisited(threads \ {th})

GridWork == LevelsBuilt(gridStrats) + LevelsVisited(BagToSet(gridMon))

GridCreate(lower_price, upper_price, grid_count, total_quantity) ==
    /\ gridCall.pc = "idle"
    /\ IF CreateOutcome(lower_price, upper_price, grid_count) # "ok"
       THEN /\ gridRet' = [GridNoRet EXCEPT !.op = "create",
                                            !.result = "ValueError"]
            /\ UNCHANGED <<gridStrats, grid_strategies>>
       ELSE /\ GridWork + grid_count <= MaxGridWork
            /\ \E grid_id \in NewIds(grid_strategies) :
                 /\ gridStrats' = Append(gridStrats,
                      NewStrategy(grid_id, lower_price, upper_price,
                                  grid_count, total_quantity))
                 /\ grid_strategies' =
                      Put(grid_strategies, grid_id, Len(gridStrats) + 1)
                 /\ gridRet' = [op |-> "create", id |-> grid_id,
                                result |-> "ok",
                                lower_price |-> lower_price,
                                upper_price |-> upper_price,
                                grid_count |-> grid_count,
                                total_quantity |-> total_quantity]
    /\ UNCHANGED <<gridOrders, gridMon, gridCall>>
    /\ UNCHANGED <<ocoVars, twapVars>>

\* ------------------------------------------- grid: start_grid_strategy
\* the test of line 68-69 on one level
Eligible(level, current_price) ==
    \/ level.side = "BUY" /\ FracLess(level.price, Frac(current_price, 1))
    \/ level.side = "SELL" /\ FracLess(Frac(current_price, 1), level.price)

\* the first level from index from on that the loop of start places, 0 if
\* there is none
NextEligible(levels, from, current_price) ==
    LET S == {k \in from..Len(levels) : Eligible(levels[k], current_price)}
    IN  IF S = {} THEN 0 ELSE CHOOSE k \in S : \A m \in S : k <= m

\* lines 75-77
Placed(strategy, k, order_id) ==
    [strategy EXCEPT !.grid_levels[k].order_id = order_id,
                     !.grid_levels[k].status = "PLACED",
                     !.active_orders = @ + 1]

\* lines 81-83: status RUNNING, a new monitoring thread, return True (with
\* the price the call fetched, the levels it called place_order for and
\* whether one of these calls raised)
StartReturns(s, strategy, current_price, failed, visited) ==
    /\ gridStrats' = [gridStrats EXCEPT ![s] = [strategy EXCEPT !.status = "RUNNING"]]
    /\ gridMon' = gridMon (+) SetToBag({[strat |-> s, pc |-> "while",
                                         k |-> 0, order |-> 0]})
    /\ gridCall' = GridIdle
    /\ gridRet' = [GridNoRet EXCEPT !.op = "start", !.id = strategy.id,
                                    !.result = "True",
                                    !.price = current_price,
                                    !.failed = failed,
                                    !.visited = visited]

\* the lookup, the ticker and the loop up to the first place_order call
GridStartBegin(grid_id) ==
    /\ gridCall.pc = "idle"
    /\ IF grid_id \notin DOMAIN grid_strategies
       THEN /\ gridRet' = [GridNoRet EXCEPT !.op = "start", !.id = grid_id,
                                            !.result = "False"]
            /\ UNCHANGED <<gridStrats, gridMon, gridCall>>
       ELSE LET s == grid_strategies[grid_id] IN
            /\ GridWork + Len(gridStrats[s].grid_levels) <= MaxGridWork
            /\ \/ /\ gridRet' = [GridNoRet EXCEPT !.op = "start", !.id = grid_id,
                                                  !.result = "GatewayError"]
                  /\ UNCHANGED <<gridStrats, gridMon, gridCall>>
               \/ \E current_price \in Prices :
                    LET k == NextEligible(gridStrats[s].grid_levels, 1, current_price)
                    IN  IF k = 0
                        THEN StartReturns(s, gridStrats[s], current_price,
                                          FALSE, {})
                        ELSE /\ gridCall' = [pc |-> "start_place", id |-> grid_id,
                                             strat |-> s, k |-> k,
                                             price |-> current_price,
                                             failed |-> FALSE,
                                             visited |-> {}]
                             /\ gridRet' = GridNoRet
                             /\ UNCHANGED <<gridStrats, gridMon>>
    /\ UNCHANGED <<grid_strategies, gridOrders>>
    /\ UNCHANGED <<ocoVars, twapVars>>

\* GridStartPlace without the try/except around place_order: the error of
\* a level ends the call
GridStartPlaceAborts ==
    /\ gridCall.pc = "start_place"
    /\ LET s == gridCall.strat
           k == gridCall.k
           next == NextEligible(gridStrats[s].grid_levels, k + 1, gridCall.price)
       IN  \/ /\ gridCall' = GridIdle
              /\ gridRet' = [GridNoRet EXCEPT !.op = "start", !.id = gridCall.id,
                                              !.result = "GatewayError"]
              /\ UNCHANGED <<gridStrats, gridOrders, gridMon>>
           \/ LET strategy == Placed(gridStrats[s], k, Len(gridOrders) + 1)
              IN  /\ gridOrders' = Append(gridOrders,
                        [status |-> "NEW", strat |-> s, level |-> k,
                         cancels |-> 0])
                  /\ IF next = 0
                     THEN StartReturns(s, strategy, gridCall.price,
                                       gridCall.failed, gridCall.visited \cup {k})
                     ELSE /\ gridStrats' = [gridStrats EXCEPT ![s] = strategy]
                          /\ gridCall' = [gridCall EXCEPT !.k = next,
                                            !.visited = @ \cup {k}]
                          /\ gridRet' = GridNoRet
                          /\ UNCHANGED gridMon
    /\ UNCHANGED grid_strategies
    /\ UNCHANGED <<ocoVars, twapVars>>

\* LimitOrderHandler.place_order for level k (it raises, or the exchange
\* books the order), then the loop up to the next place_order call
GridStartPlace ==
    /\ gridCall.pc = "start_place"
    /\ LET s == gridCall.strat
           k == gridCall.k
           next == NextEligible(gridStrats[s].grid_levels, k + 1, gridCall.price)
       IN  \E booked \in BOOLEAN :
             LET strategy == IF booked
                             THEN Placed(gridStrats[s], k, Len(gridOrders) + 1)
                             ELSE gridStrats[s]
             IN  /\ gridOrders' = IF booked
                       THEN Append(gridOrders,
                              [status |-> "NEW", strat |-> s, level |-> k,
                               cancels |-> 0])
                       ELSE gridOrders
                 /\ IF next = 0
                    THEN StartReturns(s, strategy, gridCall.price,
                                      gridCall.failed \/ ~booked,
                                      gridCall.visited \cup {k})
                    ELSE /\ gridStrats' = [gridStrats EXCEPT ![s] = strategy]
                         /\ gridCall' = [gridCall EXCEPT !.k = next,
                                           !.failed = @ \/ ~booked,
                                           !.visited = @ \cup {k}]
                         /\ gridRet' = GridNoRet
                         /\ UNCHANGED gridMon
    /\ UNCHANGED grid_strategies
    /\ UNCHANGED <<ocoVars, twapVars>>

\* ------------------------------------------------- grid: the exchange
\* the orders whose exchange status the program can still read: those of
\* a PLACED level and those a monitoring thread is asking about
Watched ==
    {o \in 1..Len(gridOrders) :
        \/ LET level == gridStrats[gridOrders[o].strat].grid_levels[gridOrders[o].level]
           IN  level.order_id = o /\ level.status = "PLACED"
        \/ \E th \in BagToSet(gridMon) : th.pc = "query" /\ th.order = o}

\* a resting grid order fills at the exchange; the fill of an order nobody
\* reads again changes nothing the program does, and is left out
GridFill(o) ==
    /\ o \in Watched
    /\ gridOrders[o].status = "NEW"
    /\ gridOrders' = [gridOrders EXCEPT ![o].status = "FILLED"]
    /\ gridRet' = GridNoRet
    /\ UNCHANGED <<gridStrats, grid_strategies, gridMon, gridCall>>
    /\ UNCHANGED <<ocoVars, twapVars>>

\* LimitOrderHandler.cancel_order on the exchange's side: the books it can
\* leave behind (it swallows the gateway's error and returns False);
\* cancels counts the calls made for the order
GridBookAfterCancel(o) ==
    {[gridOrders EXCEPT ![o].cancels = @ + 1]} \cup
    (IF gridOrders[o].status = "NEW"
     THEN {[gridOrders EXCEPT ![o].cancels = @ + 1, ![o].status = "CANCELED"]}
     ELSE {})

\* ------------------------------------------------ grid: _monitor_grid
\* the first level from index from on that passes the test of lines 94 and
\* 124, 0 if there is none
NextPlaced(levels, from) ==
    LET S == {k \in from..Len(levels) :
                levels[k].status = "PLACED" /\ levels[k].order_id # 0}
    IN  IF S = {} THEN 0 ELSE CHOOSE k \in S : \A m \in S : k <= m

\* lines 100-108
Filled(strategy, k) ==
    LET level == strategy.grid_levels[k]
        value == FracMul(level.quantity, level.price)
    IN  [strategy EXCEPT
            !.grid_levels[k].status = "FILLED",
            !.active_orders = @ - 1,
            !.total_trades = @ + 1,
            !.profit_loss = IF level.side = "SELL" THEN FracAdd(@, value)
                            ELSE FracSub(@, value)]

\* gridMon with the thread in state th moved to state to
Moved(th, to) == (gridMon (-) SetToBag({th})) (+) SetToBag({to})

\* the while test, then the for loop up to its first futures_get_order
\* call; with no level to query the thread sleeps and tests again
GridMonWhile(th) ==
    /\ BagIn(th, gridMon)
    /\ th.pc = "while"
    /\ LET strategy == gridStrats[th.strat]
           k == NextPlaced(strategy.grid_levels, 1)
       IN  gridMon' = Moved(th,
              IF strategy.status # "RUNNING"
              THEN [th EXCEPT !.pc = "done"]
              ELSE IF k = 0 THEN th
              ELSE [th EXCEPT !.pc = "query", !.k = k,
                              !.order = strategy.grid_levels[k].order_id])
    /\ gridRet' = GridNoRet
    /\ UNCHANGED <<gridStrats, grid_strategies, gridOrders, gridCall>>
    /\ UNCHANGED <<ocoVars, twapVars>>

\* futures_get_order for level k returns or raises (the thread ends by the
\* break of line 114, pc "raised"); then the rest of the for loop up to the
\* next futures_get_order call, or the sleep
GridMonQuery(th) ==
    /\ BagIn(th, gridMon)
    /\ th.pc = "query"
    /\ LET s == th.strat
           k == th.k
       IN  \/ /\ gridMon' = Moved(th, [th EXCEPT !.pc = "raised", !.k = 0,
                                                 !.order = 0])
              /\ UNCHANGED gridStrats
           \/ LET strategy ==
                      IF gridOrders[th.order].status = "FILLED"
                      THEN Filled(gridStrats[s], k) ELSE gridStrats[s]
                  next == NextPlaced(strategy.grid_levels, k + 1)
              IN  /\ gridStrats' = [gridStrats EXCEPT ![s] = strategy]
                  /\ gridMon' = Moved(th,
                       IF next = 0
                       THEN [th EXCEPT !.pc = "while", !.k = 0, !.order = 0]
                       ELSE [th EXCEPT !.k = next,
                               !.order = strategy.grid_levels[next].order_id])
    /\ gridRet' = GridNoRet
    /\ UNCHANGED <<grid_strategies, gridOrders, gridCall>>
    /\ UNCHANGED <<ocoVars, twapVars>>

\* -------------------------------------------- grid: stop_grid_strategy
\* lines 128-130: status STOPPED, no active orders, return True (with the
\* levels the call called cancel_order for)
StopReturns(s, strategy, visited) ==
    /\ gridStrats' = [gridStrats EXCEPT ![s] =
          [strategy EXCEPT !.status = "STOPPED", !.active_orders = 0]]
    /\ gridCall' = GridIdle
    /\ gridRet' = [GridNoRet EXCEPT !.op = "stop", !.id = strategy.id,
                                    !.result = "True",
                                    !.visited = visited]

\* the lookup and the loop up to the first cancel_order call
GridStopBegin(grid_id) ==
    /\ gridCall.pc = "idle"
    /\ IF grid_id \notin DOMAIN grid_strategies
       THEN /\ gridRet' = [GridNoRet EXCEPT !.op = "stop", !.id = grid_id,
                                            !.result = "False"]
            /\ UNCHANGED <<gridStrats, gridCall>>
       ELSE LET s == grid_strategies[grid_id]
                k == NextPlaced(gridStrats[s].grid_levels, 1)
            IN  IF k = 0
                THEN StopReturns(s, gridStrats[s], {})
                ELSE /\ gridCall' = [pc |-> "stop_cancel", id |-> grid_id,
                                     strat |-> s, k |-> k, price |-> 0,
                                     failed |-> FALSE, visited |-> {}]
                     /\ gridRet' = GridNoRet
                     /\ UNCHANGED gridStrats
    /\ UNCHANGED <<grid_strategies, gridOrders, gridMon>>
    /\ UNCHANGED <<ocoVars, twapVars>>

\* cancel_order for level k and line 126, then the loop up to the next
\* cancel_order call
GridStopCancel ==
    /\ gridCall.pc = "stop_cancel"
    /\ LET s == gridCall.strat
           k == gridCall.k
           strategy == [gridStrats[s] EXCEPT !.grid_levels[k].status = "CANCELLED"]
           next == NextPlaced(strategy.grid_levels, k + 1)
       IN  /\ gridOrders' \in GridBookAfterCancel(gridStrats[s].grid_levels[k].order_id)
           /\ IF next = 0
              THEN StopReturns(s, strategy, gridCall.visited \cup {k})
              ELSE /\ gridStrats' = [gridStrats EXCEPT ![s] = strategy]
                   /\ gridCall' = [gridCall EXCEPT !.k = next,
                                                   !.visited = @ \cup {k}]
                   /\ gridRet' = GridNoRet
    /\ UNCHANGED <<grid_strategies, gridMon>>
    /\ UNCHANGED <<ocoVars, twapVars>>

\* the argument lists <<lower_price, upper_price, grid_count,
\* total_quantity>> the grid is created with: every list validation accepts
\* (the quantity, which the threads only carry along, is the largest), and
\* one list for each test validation can fail at
GridArgs ==
    {a \in Prices \X Prices \X (0..MaxGridWork) \X {MaxQty} :
        \/ CreateOutcome(a[1], a[2], a[3]) = "ok"
        \/ a[3] \in {0, 1} /\ a[1] = 1 /\ a[2] = 2
        \/ a[3] = 2 /\ a[1] + a[2] \in {2, 3} /\ a[1] >= a[2]}

NextGrid ==
    \/ \E a \in GridArgs : GridCreate(a[1], a[2], a[3], a[4])
    \/ \E grid_id \in 1..(Len(gridStrats) + 1) : GridStartBegin(grid_id)
    \/ GridStartPlace
    \/ \E grid_id \in 1..(Len(gridStrats) + 1) : GridStopBegin(grid_id)
    \/ GridStopCancel
    \/ \E th \in BagToSet(gridMon) :
         \/ GridMonWhile(th)
         \/ GridMonQuery(th)
    \/ \E o \in 1..Len(gridOrders) : GridFill(o)

SpecGrid == Init /\ [][NextGrid]_vars

\* the states a live _monitor_grid thread can be in: a strategy that was
\* started has at most MaxGridWork \div 2 levels (they were built, then
\* visited), and start placed at most MaxGridWork - 2 orders
GridThreadStates ==
    [strat : 1..(MaxGridWork \div 2), pc : {"while"}, k : {0}, order : {0}]
    \cup [strat : 1..(MaxGridWork \div 2), pc : {"query"},
          k : 1..(MaxGridWork \div 2), order : 1..(MaxGridWork - 2)]

\* one step of a _monitor_grid thread that is in state th
GridMonStep(th) == GridMonWhile(th) \/ GridMonQuery(th)

\* the grid coordinator with its threads scheduled: a started monitoring
\* thread that can take a step eventually takes one, and a start or stop
\* call in progress goes on, every gateway call and every time.sleep(5)
\* returning
SpecGridFair ==
    /\ Init /\ [][NextGrid]_vars
    /\ \A th \in GridThreadStates : WF_vars(GridMonStep(th))
    /\ WF_vars(GridStartPlace)
    /\ WF_vars(GridStopCancel)

\* the calls that build a strategy, with every argument list within the
\* bounds and no thread taking a step; a run stays with one coordinator
NextCreate ==
    \/ /\ twapJobs = <<>> /\ twapRet = TwapNoRet
       /\ \E lower_price \in Prices, upper_price \in Prices,
             grid_count \in 0..MaxGridWork, total_quantity \in 1..MaxQty :
            GridCreate(lower_price, upper_price, grid_count, total_quantity)
    \/ /\ gridStrats = <<>> /\ gridRet = GridNoRet
       /\ \E total_quantity \in 1..MaxQty, duration_minutes \in 0..MaxDuration,
             interval_minutes \in 0..MaxDuration :
            TwapStart(total_quantity, duration_minutes, interval_minutes)

SpecCreate == Init /\ [][NextCreate]_vars

\* the coordinators side by side
Next == NextOCO \/ NextTWAP \/ NextGrid

Spec == Init /\ [][Next]_vars

\* ===================================================== claims: OCO
Pairs == 1..Len(ocoPairs)
Terminal(p) == ocoPairs[p].status \in {"LIMIT_FILLED", "STOP_FILLED"}

C1_Inv ==
    \A p \in Pairs :
      /\ Len(ocoCancels[p]) <= 1
      /\ ocoPairs[p].status = "LIMIT_FILLED" =>
            ocoCancels[p] = <<ocoPairs[p].stop_order>> /\ ocoMon[p].pc = "done"
      /\ ocoPairs[p].status = "STOP_FILLED" =>
            ocoCancels[p] = <<ocoPairs[p].limit_order>> /\ ocoMon[p].pc = "done"

C1_Step ==
    \A p \in Pairs :
      LET moved == ocoMon'[p] # ocoMon[p] IN
      /\ ocoMon[p].pc = "decide" /\ moved /\ ocoMon[p].limit_status = "FILLED" =>
            /\ ocoCancels'[p] = <<ocoPairs[p].stop_order>>
            /\ ocoMon'[p].pc = "set_limit_filled"
      /\ ocoMon[p].pc = "decide" /\ moved /\ ocoMon[p].limit_status # "FILLED"
            /\ ocoMon[p].stop_status = "FILLED" =>
            /\ ocoCancels'[p] = <<ocoPairs[p].limit_order>>
            /\ ocoMon'[p].pc = "set_stop_filled"
      /\ ocoMon[p].pc = "set_limit_filled" /\ moved =>
            ocoPairs'[p].status = "LIMIT_FILLED" /\ ocoMon'[p].pc = "done"
      /\ ocoMon[p].pc = "set_stop_filled" /\ moved =>
            ocoPairs'[p].status = "STOP_FILLED" /\ ocoMon'[p].pc = "done"
      /\ Terminal(p) => ocoPairs'[p] = ocoPairs[p]
      /\ ocoMon[p].pc = "done" =>
            ocoMon'[p] = ocoMon[p] /\ ocoCancels'[p] = ocoCancels[p]

\* C1: when a pair's monitoring task observes a leg FILLED it invokes cancel
\* on the opposite leg exactly once, sets the status to the matching terminal
\* value (LIMIT_FILLED for the limit leg, STOP_FILLED for the stop leg) and
\* stops polling; cancel is invoked at most once in the pair's lifetime and a
\* terminal status never changes again.
C1_CancelOnceThenTerminal == []C1_Inv /\ [][C1_Step]_vars

\* a pair ended STOP_FILLED after its one cancel, on the limit leg
C1_Witness ==
    \E p \in Pairs : /\ ocoPairs[p].status = "STOP_FILLED"
                     /\ ocoCancels[p] = <<ocoPairs[p].limit_order>>
                     /\ ocoMon[p].pc = "done"

\* C2: in every reachable state in which a pair's status is ACTIVE, at most
\* one of its two legs is FILLED at the exchange.
C2_AtMostOneLegFilledWhileActive ==
    \A p \in Pairs :
      ocoPairs[p].status = "ACTIVE" =>
        ~ (/\ orders[ocoPairs[p].limit_order].status = "FILLED"
           /\ orders[ocoPairs[p].stop_order].status = "FILLED")

\* C3: place_oco_order itself rejects a misordered request (SELL with
\* limit_price <= stop_price, BUY with limit_price >= stop_price) before any
\* order is submitted: no leg of such a request is ever on the exchange and
\* no such request returns an id.
C3_MisorderedRejectedBeforeSubmit ==
    /\ ocoCall.pc = "stop_leg" =>
          ~BadOrdering(ocoCall.side, ocoCall.limit_price, ocoCall.stop_price)
    /\ ocoRet.result = "ok" => ~ocoRet.bad

C4_Step ==
    ocoRet'.leg = "stop" =>
      /\ ocoCall.pc = "stop_leg"
      /\ ocoRet'.result \in {"GatewayError", "ValueError"}
      /\ UNCHANGED <<ocoPairs, oco_orders, ocoMon, ocoCancels>>
      /\ orders' = orders
      /\ orders[ocoCall.limit_order].status # "CANCELED"
      /\ ocoCall.limit_order \in Orphans'

C4_Inv == \A o \in Orphans : orders[o].status # "CANCELED"

\* C4: if the limit leg was placed and the stop leg's placement fails
\* (gateway error or stop-price validation), the error reaches the caller,
\* no pair is registered, no monitoring task is started and no cancel is
\* issued for the limit leg, which stays on the exchange as it was.
C4_StopLegFailureOrphansLimitLeg == []C4_Inv /\ [][C4_Step]_vars

\* a place call just failed stop-price validation and left its limit leg
C4_Witness ==
    /\ ocoRet.leg = "stop" /\ ocoRet.result = "ValueError"
    /\ \E o \in Orphans : orders[o].type = "LIMIT" /\ orders[o].status = "NEW"

\* ==================================================== claims: TWAP
Jobs == 1..Len(twapJobs)

\* C5: start with 0 < duration < interval is rejected with a validation
\* error, not a runtime arithmetic fault.
C5_ZeroSlicesIsValidationError ==
    /\ twapRet.op = "start"
    /\ 0 < twapRet.duration_minutes
    /\ twapRet.duration_minutes < twapRet.interval_minutes
    => twapRet.result = "ValueError"

\* C6: in every reachable state where a job's status is COMPLETED, its
\* completed-slice count equals its slice count.
C6_CompletedMeansAllSlices ==
    \A j \in Jobs :
      twapJobs[j].status = "COMPLETED" => twapJobs[j].completed = twapJobs[j].parts

\* C7: after cancel(id) returned true the execution task passes no RUNNING
\* check, so at most one further market order (the slice already past its
\* check) is placed for the job.
C7_CooperativeCancel ==
    \A j \in Jobs :
      /\ ~twapHist[j].lateCheck
      /\ twapHist[j].late <= 1
      /\ twapHist[j].cancelled => twapJobs[j].status # "RUNNING"

\* one order went out after the cancel had returned true
C7_Witness ==
    \E j \in Jobs : /\ twapHist[j].cancelled
                    /\ twapHist[j].late = 1
                    /\ twapTask[j].pc = "done"

Known(job_id) == job_id \in DOMAIN twap_jobs

C8_Step ==
    /\ twapRet'.op = "cancel" /\ twapRet'.result = "False" =>
          /\ twapCall.pc = "idle"
          /\ ~Known(twapRet'.id)
             \/ twapJobs[twap_jobs[twapRet'.id]].status
                   \in {"COMPLETED", "CANCELLED", "FAILED"}
          /\ UNCHANGED <<twapJobs, twap_jobs>>
    /\ twapCall.pc = "idle" /\ twapCall'.pc = "cancel_set" =>
          /\ Known(twapCall'.id)
          /\ twapCall'.job = twap_jobs[twapCall'.id]
          /\ twapJobs[twapCall'.job].status = "RUNNING"
          /\ UNCHANGED <<twapJobs, twap_jobs>>
    /\ twapRet'.op = "cancel" /\ twapRet'.result = "True" =>
          /\ twapCall.pc = "cancel_set" /\ twapRet'.id = twapCall.id
          /\ twapJobs' = [twapJobs EXCEPT ![twapCall.job].status = "CANCELLED"]
          /\ UNCHANGED twap_jobs

\* C8: cancel(id) on a job it reads as RUNNING sets that job's status to
\* CANCELLED and returns true, changing nothing else; on an unknown id or a
\* job it reads as COMPLETED, CANCELLED or FAILED it returns false and
\* leaves every job unchanged.
C8_CancelOnlyWhileRunning == [][C8_Step]_vars

\* cancel just returned false for a job that had ended, after an earlier
\* cancel of a job had returned true
C8_Witness ==
    /\ twapRet.op = "cancel" /\ twapRet.result = "False"
    /\ Known(twapRet.id)
    /\ \E j \in Jobs : twapHist[j].cancelled

C9_Step ==
    \A j \in Jobs :
      /\ ~twapHist[j].raised /\ twapHist'[j].raised =>
            /\ twapJobs'[j].status = "FAILED"
            /\ twapJobs'[j].error
            /\ twapJobs'[j].completed = twapJobs[j].completed
            /\ twapJobs'[j].orders = twapJobs[j].orders
            /\ twapTask'[j].pc = "done"
      /\ twapHist[j].raised =>
            /\ twapTask'[j] = twapTask[j]
            /\ twapHist'[j].submitted = twapHist[j].submitted
            /\ twapJobs'[j].completed = twapJobs[j].completed
            /\ twapJobs'[j].orders = twapJobs[j].orders

\* C9: when a market placement raises in the execution task the job's
\* status becomes FAILED and the error is recorded, the task places no
\* further order, and the completed-slice count and the recorded orders
\* keep the values they had before the failing slice.
C9_PlacementErrorFailsJob == [][C9_Step]_vars

\* a job failed on a later slice and kept its first one
C9_Witness ==
    \E j \in Jobs : /\ twapHist[j].raised
                    /\ twapJobs[j].status = "FAILED"
                    /\ twapJobs[j].completed >= 1
                    /\ Len(twapJobs[j].orders) = twapJobs[j].completed

RECURSIVE SumNum(_)
SumNum(qs) == IF qs = <<>> THEN 0 ELSE Head(qs).num + SumNum(Tail(qs))

\* C10: for every job, completed-slice count <= slice count, and the sum of
\* the per-slice quantities of the orders placed so far (completed-slice
\* count x quantity per slice) is <= the total quantity.
C10_PlacedWithinTotal ==
    \A j \in Jobs :
      LET job == twapJobs[j] IN
      /\ job.completed <= job.parts
      /\ Len(job.orders) = job.completed
      /\ \A k \in 1..Len(job.orders) : job.orders[k].den = job.qty_per_part.den
      /\ SumNum(job.orders) = job.completed * job.qty_per_part.num
      /\ SumNum(job.orders) <= job.total_quantity * job.qty_per_part.den

\* every slice of a job of at least two slices was placed
C10_Witness ==
    \E j \in Jobs : /\ twapJobs[j].parts >= 2
                    /\ twapJobs[j].completed = twapJobs[j].parts
                    /\ SumNum(twapJobs[j].orders)
                         = twapJobs[j].total_quantity * twapJobs[j].qty_per_part.den

\* C11: every accepted start_twap_order registers a job whose slice count
\* is the floor of duration_minutes / interval_minutes and whose slice
\* quantity times the slice count is the total quantity asked for
C11_SlicesAndSliceQuantity ==
    (twapRet.op = "start" /\ twapRet.result = "ok") =>
        LET job == twapJobs[twap_jobs[twapRet.id]] IN
          /\ job.parts * twapRet.interval_minutes <= twapRet.duration_minutes
          /\ twapRet.duration_minutes < (job.parts + 1) * twapRet.interval_minutes
          /\ job.qty_per_part.num * job.parts
               = twapRet.total_quantity * job.qty_per_part.den
          /\ job.total_quantity = twapRet.total_quantity

\* an accepted start whose total does not divide evenly over two slices
C11_Witness ==
    /\ twapRet.op = "start" /\ twapRet.result = "ok"
    /\ twapJobs[twap_jobs[twapRet.id]].parts = 2
    /\ twapRet.total_quantity = 1

\* C12: a run with n slices places slice k after exactly k suspensions
\* (slice 0 at once), suspends n - 1 times in all and not after the last
\* slice, and is COMPLETED by the step that places the last slice; total 9
\* over 3 minutes at interval 1 is three slices of 3
C12_Inv ==
    /\ \A j \in Jobs :
          /\ twapTask[j].pc \in {"submit", "query"}
                => twapHist[j].sleeps = twapJobs[j].completed
          /\ twapJobs[j].completed = twapJobs[j].parts
                => /\ twapHist[j].sleeps = twapJobs[j].parts - 1
                   /\ twapTask[j].pc = "done"
          /\ twapHist[j].sleeps <= twapJobs[j].completed
    /\ NewJob(1, 9, 3, 1).parts = 3
    /\ NewJob(1, 9, 3, 1).qty_per_part.num
         = 3 * NewJob(1, 9, 3, 1).qty_per_part.den

C12_Step ==
    \A j \in Jobs :
        (twapJobs'[j].completed = twapJobs[j].parts
           /\ twapJobs[j].completed < twapJobs[j].parts)
          => /\ twapJobs'[j].status = "COMPLETED"
             /\ twapHist'[j].sleeps = twapHist[j].sleeps

C12_SleepsBetweenSlicesOnly == []C12_Inv /\ [][C12_Step]_vars

\* a two-slice run that completed without cancel or error: it slept once
C12_Witness ==
    \E j \in Jobs :
        /\ twapJobs[j].parts = 2
        /\ twapJobs[j].completed = 2
        /\ twapJobs[j].status = "COMPLETED"
        /\ ~twapHist[j].cancelled
        /\ twapHist[j].sleeps = 1

\* ==================================================== claims: grid
Strats == 1..Len(gridStrats)

\* C13: create_grid_strategy with valid arguments builds grid_count levels,
\* level i priced lower + i * (upper - lower) / (grid_count - 1): strictly
\* increasing, the first at lower and the last at upper, each of quantity
\* total_quantity / grid_count; 100..110 in 6 levels with quantity 12 gives
\* 100, 102, 104, 106, 108, 110 with quantity 2 each
C13_LadderPricesAndQuantities ==
    /\ (gridRet.op = "create" /\ gridRet.result = "ok") =>
         LET levels == gridStrats[grid_strategies[gridRet.id]].grid_levels
             n == gridRet.grid_count
             lower == gridRet.lower_price
             upper == gridRet.upper_price
         IN  /\ n >= 2 /\ lower < upper
             /\ Len(levels) = n
             /\ \A k \in 1..n :
                  /\ levels[k].price.num * (n - 1)
                       = (lower * (n - 1) + (k - 1) * (upper - lower))
                           * levels[k].price.den
                  /\ levels[k].quantity.num * n
                       = gridRet.total_quantity * levels[k].quantity.den
             /\ \A k \in 1..(n - 1) :
                  FracLess(levels[k].price, levels[k + 1].price)
             /\ levels[1].price = Frac(lower, 1)
             /\ levels[n].price = Frac(upper, 1)
    /\ LET levels == GridLevels(100, 110, 6, 12)
       IN  /\ Len(levels) = 6
           /\ \A k \in 1..6 :
                /\ levels[k].price = Frac(100 + 2 * (k - 1), 1)
                /\ levels[k].quantity = Frac(2, 1)

\* a ladder of three levels, whose middle price and quantities are no
\* integers
C13_Witness ==
    /\ gridRet.op = "create" /\ gridRet.result = "ok"
    /\ gridRet.grid_count = 3
    /\ gridRet.total_quantity = 2
    /\ gridStrats[grid_strategies[gridRet.id]].grid_levels[2].price.den = 2

\* C14: in every strategy level i is BUY exactly when i < grid_count // 2
\* and SELL otherwise, so the middle level of an odd ladder is SELL; no step
\* changes the side of a level
C14_Inv ==
    \A s \in Strats :
        LET levels == gridStrats[s].grid_levels
        IN  /\ \A k \in 1..Len(levels) :
                 /\ levels[k].side \in Sides
                 /\ levels[k].side = "BUY" <=> k - 1 < Len(levels) \div 2
            /\ Len(levels) % 2 = 1
                 => levels[(Len(levels) + 1) \div 2].side = "SELL"

C14_Step ==
    \A s \in Strats :
        /\ Len(gridStrats'[s].grid_levels) = Len(gridStrats[s].grid_levels)
        /\ \A k \in 1..Len(gridStrats[s].grid_levels) :
             gridStrats'[s].grid_levels[k].side = gridStrats[s].grid_levels[k].side

C14_SidesSplitAtMidpoint == []C14_Inv /\ [][C14_Step]_vars

\* a ladder of three levels whose middle level, a SELL, was placed by start
\* and marked FILLED by the monitoring thread
C14_Witness ==
    \E s \in Strats :
        /\ Len(gridStrats[s].grid_levels) = 3
        /\ gridStrats[s].grid_levels[2].side = "SELL"
        /\ gridStrats[s].grid_levels[2].status = "FILLED"

\* C15: create_grid_strategy touches neither the exchange nor the threads:
\* the step that registers a strategy leaves the book and the monitoring
\* threads as they were, and the new strategy is CREATED, its levels PENDING
\* without order id, its active orders, trades and profit/loss all 0
C15_Step ==
    Len(gridStrats') # Len(gridStrats) =>
        LET new == gridStrats'[Len(gridStrats')]
        IN  /\ Len(gridStrats') = Len(gridStrats) + 1
            /\ gridRet'.op = "create" /\ gridRet'.result = "ok"
            /\ UNCHANGED <<gridOrders, gridMon, gridCall>>
            /\ gridCall.pc = "idle"
            /\ \A s \in Strats : gridStrats'[s] = gridStrats[s]
            /\ grid_strategies'[gridRet'.id] = Len(gridStrats')
            /\ new.id = gridRet'.id
            /\ new.status = "CREATED"
            /\ \A k \in 1..Len(new.grid_levels) :
                 /\ new.grid_levels[k].status = "PENDING"
                 /\ new.grid_levels[k].order_id = 0
            /\ new.active_orders = 0
            /\ new.total_trades = 0
            /\ new.profit_loss = Frac(0, 1)

C15_CreatePlacesNothing == [][C15_Step]_vars

\* a strategy just created beside one that has an order on the book and a
\* monitoring thread
C15_Witness ==
    /\ gridRet.op = "create" /\ gridRet.result = "ok"
    /\ gridOrders # <<>>
    /\ gridMon # EmptyBag
    /\ gridStrats[Len(gridStrats)].status = "CREATED"

\* C16: create_grid_strategy with grid_count < 2 or lower_price >=
\* upper_price, and start_twap_order with duration_minutes <= 0 or
\* interval_minutes <= 0, raise ValueError; the call that raises it changes
\* neither the registry nor the strategies, the book or the threads
C16_Rejected ==
    \A lower_price \in Prices, upper_price \in Prices,
       grid_count \in 0..MaxGridWork :
        (grid_count < 2 \/ lower_price >= upper_price)
          => CreateOutcome(lower_price, upper_price, grid_count) = "ValueError"

C16_Step ==
    /\ Len(gridStrats') # Len(gridStrats)
         => /\ gridRet'.result = "ok"
            /\ gridRet'.grid_count >= 2
            /\ gridRet'.lower_price < gridRet'.upper_price
    /\ (gridRet'.op = "create" /\ gridRet'.result # "ok")
         => /\ gridRet'.result = "ValueError"
            /\ UNCHANGED <<gridStrats, grid_strategies, gridOrders, gridMon,
                           gridCall>>
    /\ (/\ twapRet'.op = "start"
        /\ \/ twapRet'.duration_minutes <= 0
           \/ twapRet'.interval_minutes <= 0)
         => /\ twapRet'.result = "ValueError"
            /\ UNCHANGED <<twapJobs, twap_jobs, twapTask, twapHist, twapCall>>

C16_ValidationBeforeAnyEffect == []C16_Rejected /\ [][C16_Step]_vars

\* a rejected create_grid_strategy call made when the registry already has
\* a strategy
C16_Witness ==
    /\ gridRet.op = "create" /\ gridRet.result = "ValueError"
    /\ DOMAIN grid_strategies # {}

Levels(s) == 1..Len(gridStrats[s].grid_levels)
PlacedLevels(s) == {k \in Levels(s) : gridStrats[s].grid_levels[k].status = "PLACED"}
FilledLevels(s) == {k \in Levels(s) : gridStrats[s].grid_levels[k].status = "FILLED"}

\* C17: when start_grid_strategy returns True, having fetched the price p,
\* it has called place_order for exactly the levels that are a BUY below p
\* or a SELL above p, every other level is PENDING,
\* and if none of its place_order calls raised, the levels that are a BUY
\* below p or a SELL above p are PLACED, the active order count is the number
\* of PLACED levels and the status is RUNNING
C17_StartPlacesRestingLevelsOnly ==
    (gridRet.op = "start" /\ gridRet.result = "True") =>
        LET s == grid_strategies[gridRet.id]
            levels == gridStrats[s].grid_levels
        IN  /\ gridRet.visited
                 = {k \in Levels(s) : Eligible(levels[k], gridRet.price)}
            /\ \A k \in Levels(s) :
                 ~Eligible(levels[k], gridRet.price)
                   => levels[k].status = "PENDING"
            /\ ~gridRet.failed
                 => /\ \A k \in Levels(s) :
                         Eligible(levels[k], gridRet.price)
                           => levels[k].status = "PLACED"
                    /\ gridStrats[s].active_orders = Cardinality(PlacedLevels(s))
                    /\ gridStrats[s].status = "RUNNING"

\* C18: in every reachable state the active order count of every strategy
\* is the number of its levels whose status is PLACED, hence never negative
C18_ActiveOrdersCountPlacedLevels ==
    \A s \in Strats :
        /\ gridStrats[s].active_orders = Cardinality(PlacedLevels(s))
        /\ gridStrats[s].active_orders >= 0

RECURSIVE SignedValue(_, _)
\* quantity * price summed over the levels in ks, SELL levels counted
\* positive and BUY levels negative
SignedValue(levels, ks) ==
    IF ks = {} THEN Frac(0, 1)
    ELSE LET k == CHOOSE x \in ks : TRUE
             value == FracMul(levels[k].quantity, levels[k].price)
         IN  IF levels[k].side = "SELL"
             THEN FracAdd(SignedValue(levels, ks \ {k}), value)
             ELSE FracSub(SignedValue(levels, ks \ {k}), value)

\* C19: in every reachable state the trade count of every strategy is the
\* number of its FILLED levels and its profit/loss is quantity * price summed
\* over the FILLED SELL levels minus the same sum over the FILLED BUY levels
C19_TradesAndProfitCountFilledLevels ==
    \A s \in Strats :
        /\ gridStrats[s].total_trades = Cardinality(FilledLevels(s))
        /\ gridStrats[s].profit_loss
             = SignedValue(gridStrats[s].grid_levels, FilledLevels(s))

\* C20: when stop_grid_strategy returns True, every level it called
\* cancel_order for is CANCELLED and its order was asked to cancel once, no
\* level is PLACED, the active order count is 0 and the status is STOPPED;
\* a step of stop changes no level but the one it cancels
C20_Inv ==
    (gridRet.op = "stop" /\ gridRet.result = "True") =>
        LET s == grid_strategies[gridRet.id]
            levels == gridStrats[s].grid_levels
        IN  /\ PlacedLevels(s) = {}
            /\ gridStrats[s].active_orders = 0
            /\ gridStrats[s].status = "STOPPED"
            /\ \A k \in gridRet.visited :
                 /\ levels[k].status = "CANCELLED"
                 /\ gridOrders[levels[k].order_id].cancels = 1

C20_Step ==
    (gridCall.pc = "stop_cancel" /\ gridCall' # gridCall) =>
        LET s == gridCall.strat
        IN  /\ gridStrats'[s].grid_levels[gridCall.k].status = "CANCELLED"
            /\ \A k \in Levels(s) \ {gridCall.k} :
                 gridStrats'[s].grid_levels[k] = gridStrats[s].grid_levels[k]

C20_StopCancelsPlacedLevels == []C20_Inv /\ [][C20_Step]_vars

\* C21: stop_grid_strategy on a strategy whose status is STOPPED returns
\* True in one step, calls cancel_order for no level and leaves the book and
\* every strategy, with its levels, counters and status, as they were
C21_Step ==
    /\ (/\ gridCall.pc = "idle"
        /\ gridRet'.op = "stop"
        /\ gridRet'.id \in DOMAIN grid_strategies
        /\ gridStrats[grid_strategies[gridRet'.id]].status = "STOPPED")
         => /\ gridRet'.result = "True"
            /\ gridRet'.visited = {}
            /\ UNCHANGED <<gridStrats, grid_strategies, gridOrders, gridMon,
                           gridCall>>
    /\ (gridCall.pc = "idle" /\ gridCall'.pc = "stop_cancel")
         => gridStrats[gridCall'.strat].status # "STOPPED"

C21_StopIsIdempotent == [][C21_Step]_vars

\* C22: a step of a caller's operation (cancel_twap_job, start_ or
\* stop_grid_strategy, a later place_oco_order, start_twap_order or
\* create_grid_strategy) writes neither the status nor the fill-derived
\* fields (completed slices and orders of a job; active orders, trades and
\* profit/loss of a grid strategy) of a pair, job or strategy that exists;
\* only the steps of the instance's own thread do
C22_Step ==
    /\ (ocoCall' # ocoCall \/ ocoRet'.result # "none")
         => \A p \in Pairs : ocoPairs'[p].status = ocoPairs[p].status
    /\ (twapCall' # twapCall \/ twapRet'.op # "none")
         => \A j \in Jobs :
              /\ twapJobs'[j].status = twapJobs[j].status
              /\ twapJobs'[j].completed = twapJobs[j].completed
              /\ twapJobs'[j].orders = twapJobs[j].orders
    /\ (gridCall' # gridCall \/ gridRet'.op # "none")
         => \A s \in Strats :
              /\ gridStrats'[s].status = gridStrats[s].status
              /\ gridStrats'[s].active_orders = gridStrats[s].active_orders
              /\ gridStrats'[s].total_trades = gridStrats[s].total_trades
              /\ gridStrats'[s].profit_loss = gridStrats[s].profit_loss

C22_OnlyOwnTaskWritesStatus == [][C22_Step]_vars

RECURSIVE Copies(_)
\* the number of threads in gridMon whose state is in the set threads
Copies(threads) ==
    IF threads = {} THEN 0
    ELSE LET th == CHOOSE x \in threads : TRUE
         IN  CopiesIn(th, gridMon) + Copies(threads \ {th})

\* the monitoring threads of strategy s that have not ended
LiveThreads(s) ==
    Copies({th \in BagToSet(gridMon) :
               th.strat = s /\ th.pc \notin {"done", "raised"}})

\* C23: in every reachable state every pair and every job has one thread of
\* its own, and every grid strategy has at most one monitoring thread that
\* has not ended
C23_OneLiveTaskPerInstance ==
    /\ Len(ocoMon) = Len(ocoPairs)
    /\ Len(twapTask) = Len(twapJobs)
    /\ \A s \in Strats : LiveThreads(s) <= 1

\* registry after is registry before plus one entry under the new key id
InsertedUnder(before, after, id) ==
    /\ id \notin DOMAIN before
    /\ DOMAIN after = DOMAIN before \cup {id}
    /\ \A k \in DOMAIN before : after[k] = before[k]

\* C24: every place_oco_order, start_twap_order and create_grid_strategy
\* call that succeeds registers its record under an id that was no key of
\* the registry: the registry gains that one entry and keeps every entry it
\* had
C24_Step ==
    /\ Len(ocoPairs') # Len(ocoPairs)
         => InsertedUnder(oco_orders, oco_orders', ocoPairs'[Len(ocoPairs')].id)
    /\ (twapRet'.op = "start" /\ twapRet'.result = "ok")
         => InsertedUnder(twap_jobs, twap_jobs', twapRet'.id)
    /\ (gridRet'.op = "create" /\ gridRet'.result = "ok")
         => InsertedUnder(grid_strategies, grid_strategies', gridRet'.id)

C24_InsertUnderNewId == [][C24_Step]_vars

\* C25: a status query of a pair's monitoring thread either returns the
\* leg's status or raises; when it raises the thread ends at once, changing
\* neither the book nor the pair, and takes no further step; from then on
\* the pair is ACTIVE and no cancel_order call was made for it, whatever
\* happens to its legs
C25_Inv ==
    \A p \in Pairs :
        ocoMon[p].pc = "raised"
          => ocoPairs[p].status = "ACTIVE" /\ ocoCancels[p] = <<>>

C25_Step ==
    \A p \in Pairs :
        /\ (ocoMon[p].pc \in {"get_limit", "get_stop"}
              /\ ocoMon'[p] # ocoMon[p])
             => \/ /\ ocoMon[p].pc = "get_limit"
                   /\ ocoMon'[p].pc = "get_stop"
                   /\ ocoMon'[p].limit_status
                        = orders[ocoPairs[p].limit_order].status
                \/ /\ ocoMon[p].pc = "get_stop"
                   /\ ocoMon'[p].pc = "decide"
                   /\ ocoMon'[p].stop_status
                        = orders[ocoPairs[p].stop_order].status
                \/ /\ ocoMon'[p].pc = "raised"
                   /\ orders' = orders
                   /\ ocoPairs' = ocoPairs
                   /\ ocoCancels' = ocoCancels
        /\ ocoMon[p].pc = "raised"
             => /\ ocoMon'[p] = ocoMon[p]
                /\ ocoPairs'[p] = ocoPairs[p]
                /\ ocoCancels'[p] = ocoCancels[p]

C25_QueryErrorLeavesPairActive == []C25_Inv /\ [][C25_Step]_vars

\* a pair whose monitoring thread ended on a raising query and whose legs
\* are both FILLED at the exchange: it is ACTIVE, nothing was cancelled
C25_Witness ==
    \E p \in Pairs :
        /\ ocoMon[p].pc = "raised"
        /\ ocoPairs[p].status = "ACTIVE"
        /\ orders[ocoPairs[p].limit_order].status = "FILLED"
        /\ orders[ocoPairs[p].stop_order].status = "FILLED"
        /\ ocoCancels[p] = <<>>

\* the monitoring threads of strategy s that are at pc
ThreadsAt(s, pc) ==
    Copies({th \in BagToSet(gridMon) : th.strat = s /\ th.pc = pc})

\* C26: a monitoring thread ends at its while test only when the status is
\* not RUNNING; a raising status query ends the thread for good and changes
\* neither the strategy (its status and the fills applied so far) nor the
\* book; and once a query of a strategy's thread has raised, a PLACED level
\* of the strategy stays PLACED in every step but those of
\* stop_grid_strategy
C26_Step ==
    \A s \in Strats :
        /\ ThreadsAt(s, "done")' > ThreadsAt(s, "done")
             => gridStrats[s].status # "RUNNING"
        /\ ThreadsAt(s, "raised")' > ThreadsAt(s, "raised")
             => /\ ThreadsAt(s, "query")' = ThreadsAt(s, "query") - 1
                /\ gridStrats' = gridStrats
                /\ gridOrders' = gridOrders
        /\ ThreadsAt(s, "raised")' >= ThreadsAt(s, "raised")
        /\ (ThreadsAt(s, "raised") > 0 /\ gridCall.pc # "stop_cancel")
             => \A k \in PlacedLevels(s) :
                  gridStrats'[s].grid_levels[k].status = "PLACED"

C26_QueryErrorEndsMonitoring == [][C26_Step]_vars

\* C27: place_stop_limit_order, having fetched the current price, raises
\* ValueError and leaves the book as it was when the stop price is at or
\* below the current price for a BUY, at or above it for a SELL; otherwise
\* it books exactly one STOP order; a gateway error books nothing
C27_Step ==
    (ocoCall.pc = "stop_leg" /\ ocoCall' # ocoCall) =>
        LET side == ocoCall.side
            trigger == ocoCall.stop_price
            current == ocoRet'.price
        IN  \/ /\ ocoRet'.result = "GatewayError"
               /\ current = 0
               /\ orders' = orders
            \/ /\ current \in Prices
               /\ \/ side = "BUY" /\ trigger <= current
                  \/ side = "SELL" /\ trigger >= current
               /\ ocoRet'.result = "ValueError"
               /\ orders' = orders
            \/ /\ current \in Prices
               /\ \/ side = "BUY" /\ trigger > current
                  \/ side = "SELL" /\ trigger < current
               /\ ocoRet'.result = "ok"
               /\ orders' = Append(orders, [type |-> "STOP", status |-> "NEW"])

C27_StopPriceValidatedBeforeSubmit == [][C27_Step]_vars

\* place_stop_limit_order just failed validation against a price it had
\* fetched, and the book holds no STOP order
C27_Witness ==
    /\ ocoRet.leg = "stop" /\ ocoRet.result = "ValueError"
    /\ ocoRet.price \in Prices
    /\ \A o \in 1..Len(orders) : orders[o].type = "LIMIT"

\* C28: the cancel_order call of a monitoring thread raises nothing: it
\* returns True when the gateway cancelled the order, which was resting, and
\* False, with the book as it was, when the gateway call raised; either way
\* the thread goes on to write the pair's terminal status
C28_Step ==
    /\ \A p \in Pairs :
         (ocoMon[p].pc = "decide" /\ ocoMon'[p] # ocoMon[p]
            /\ LegToCancel(p) # 0)
           => LET o == LegToCancel(p)
              IN  /\ ocoRet'.cancel \in {"True", "False"}
                  /\ ocoRet'.cancel = "True"
                       => /\ orders[o].status = "NEW"
                          /\ orders' = [orders EXCEPT ![o].status = "CANCELED"]
                  /\ ocoRet'.cancel = "False" => orders' = orders
                  /\ ocoMon'[p].pc \in {"set_limit_filled", "set_stop_filled"}
                  /\ ocoCancels'[p] = Append(ocoCancels[p], o)
    /\ ocoRet'.cancel # "-"
         => \E p \in Pairs : /\ ocoMon[p].pc = "decide"
                             /\ ocoMon'[p] # ocoMon[p]
                             /\ LegToCancel(p) # 0

C28_CancelNeverRaises == [][C28_Step]_vars

\* cancel_order just returned False for a leg that is still resting, and
\* the thread that called it is about to write the terminal status
C28_Witness ==
    /\ ocoRet.cancel = "False"
    /\ \E p \in Pairs :
         /\ ocoMon[p].pc = "set_limit_filled"
         /\ ocoCancels[p] = <<ocoPairs[p].stop_order>>
         /\ orders[ocoPairs[p].stop_order].status = "NEW"

\* C29: every place_order call of the market placer that returns has made
\* one futures_create_order call and then one futures_get_order call; when
\* either call raises, the error reaches the caller (the job is FAILED and
\* its thread ended) and no further order is submitted or queried
C29_Inv ==
    \A j \in Jobs :
        LET job == twapJobs[j]
            h == twapHist[j]
        IN  /\ twapTask[j].pc \in {"start", "sleep", "submit"}
                 => h.submitted = job.completed /\ h.queried = job.completed
            /\ twapTask[j].pc = "query"
                 => h.submitted = job.completed + 1 /\ h.queried = job.completed
            /\ (twapTask[j].pc = "done" /\ ~h.raised)
                 => h.submitted = job.completed /\ h.queried = job.completed
            /\ h.raised
                 => /\ twapTask[j].pc = "done"
                    /\ h.submitted \in {job.completed, job.completed + 1}
                    /\ h.queried = h.submitted

C29_Step ==
    \A j \in Jobs :
        /\ (twapTask[j].pc = "submit" /\ twapTask'[j] # twapTask[j])
             => \/ /\ twapHist'[j].submitted = twapHist[j].submitted + 1
                   /\ twapTask'[j].pc = "query"
                \/ /\ twapHist'[j].raised
                   /\ twapJobs'[j].status = "FAILED"
                   /\ twapHist'[j].submitted = twapHist[j].submitted
        /\ (twapTask[j].pc = "query" /\ twapTask'[j] # twapTask[j])
             => /\ twapHist'[j].queried = twapHist[j].queried + 1
                /\ twapHist'[j].submitted = twapHist[j].submitted
                /\ \/ twapJobs'[j].completed = twapJobs[j].completed + 1
                   \/ twapHist'[j].raised /\ twapJobs'[j].status = "FAILED"
        /\ twapHist[j].raised
             => /\ twapHist'[j].submitted = twapHist[j].submitted
                /\ twapHist'[j].queried = twapHist[j].queried

C29_OneSubmissionOneQueryNoRetry == []C29_Inv /\ [][C29_Step]_vars

\* the follow-up query of a job's second order raised: two orders were
\* submitted, two queries made, one slice completed
C29_Witness ==
    \E j \in Jobs :
        /\ twapHist[j].raised
        /\ twapHist[j].submitted = 2
        /\ twapHist[j].queried = 2
        /\ twapJobs[j].completed = 1
        /\ twapJobs[j].status = "FAILED"

\* C30: a job for which cancel_twap_job has returned True, having written
\* CANCELLED, is in no reachable state COMPLETED
C30_CancelledNeverCompleted ==
    \A j \in Jobs :
        twapHist[j].cancelled => twapJobs[j].status # "COMPLETED"

\* C31: from the return of stop_grid_strategy until start_grid_strategy is
\* called for the strategy again, no step changes the strategy: its active
\* order count stays 0, its trades and profit/loss and the status of every
\* level stay as they were
C31_Step ==
    \A s \in Strats :
        (/\ gridStrats[s].status = "STOPPED"
         /\ gridStrats'[s].status = "STOPPED"
         /\ ~(gridCall.pc = "start_place" /\ gridCall.strat = s))
          => /\ gridStrats'[s] = gridStrats[s]
             /\ gridStrats[s].active_orders = 0

C31_FrozenAfterStop == [][C31_Step]_vars

\* C32: a step changes the status of a level only from PENDING to PLACED or
\* from PLACED to FILLED or CANCELLED, and books an order for a level only
\* when the level is PENDING
C32_Step ==
    \A s \in Strats :
        \A k \in Levels(s) :
            LET before == gridStrats[s].grid_levels[k]
                after == gridStrats'[s].grid_levels[k]
            IN  /\ after.status # before.status
                     => \/ before.status = "PENDING" /\ after.status = "PLACED"
                        \/ before.status = "PLACED"
                             /\ after.status \in {"FILLED", "CANCELLED"}
                /\ after.order_id # before.order_id
                     => before.status = "PENDING"

C32_LevelStatusMovesForward == [][C32_Step]_vars

\* C33: for every TWAP job whose execution task is not inside a placement
\* call, the number of market orders submitted to the exchange for the job
\* equals its completed-slice count and the length of its order list; a
\* FAILED job has submitted exactly as many orders as it has completed slices
C33_SubmittedEqualsCompleted ==
    \A j \in 1..Len(twapJobs) :
        twapTask[j].pc # "query"
          => /\ twapHist[j].submitted = twapJobs[j].completed
             /\ twapHist[j].submitted = Len(twapJobs[j].orders)

\* C34: in every state where a pair's status is LIMIT_FILLED or STOP_FILLED,
\* the opposite leg no longer rests on the exchange: it was cancelled or has
\* filled, also when the gateway's cancel call failed
C34_OppositeLegNotOpen ==
    \A p \in 1..Len(ocoPairs) :
        /\ ocoPairs[p].status = "LIMIT_FILLED"
             => orders[ocoPairs[p].stop_order].status # "NEW"
        /\ ocoPairs[p].status = "STOP_FILLED"
             => orders[ocoPairs[p].limit_order].status # "NEW"

\* C35: a poll that observed both legs FILLED invokes cancel on the stop leg
\* only and leads to LIMIT_FILLED; the thread heads for STOP_FILLED only from
\* a poll in which the stop leg is FILLED and the limit leg is not; the status
\* is written as the poll decided, and a LIMIT_FILLED pair never becomes
\* STOP_FILLED
C35_Step ==
    \A p \in 1..Len(ocoPairs) :
        /\ (ocoMon[p].pc = "decide" /\ ocoMon'[p] # ocoMon[p]
              /\ ocoMon[p].limit_status = "FILLED"
              /\ ocoMon[p].stop_status = "FILLED")
             => /\ ocoMon'[p].pc = "set_limit_filled"
                /\ ocoCancels'[p] = Append(ocoCancels[p], ocoPairs[p].stop_order)
        /\ (ocoMon[p].pc # "set_stop_filled" /\ ocoMon'[p].pc = "set_stop_filled")
             => /\ ocoMon[p].pc = "decide"
                /\ ocoMon[p].stop_status = "FILLED"
                /\ ocoMon[p].limit_status # "FILLED"
                /\ ocoCancels'[p] = Append(ocoCancels[p], ocoPairs[p].limit_order)
        /\ (ocoPairs'[p].status = "STOP_FILLED" /\ ocoPairs[p].status # "STOP_FILLED")
             => ocoMon[p].pc = "set_stop_filled" /\ ocoPairs[p].status = "ACTIVE"
        /\ (ocoPairs'[p].status = "LIMIT_FILLED" /\ ocoPairs[p].status # "LIMIT_FILLED")
             => ocoMon[p].pc = "set_limit_filled" /\ ocoPairs[p].status = "ACTIVE"
        /\ ocoPairs[p].status = "LIMIT_FILLED" => ocoPairs'[p].status = "LIMIT_FILLED"
        /\ ocoMon[p].pc = "set_limit_filled" => ocoMon'[p].pc \in {"set_limit_filled", "done"}
C35_LimitLegHasPriority == [][C35_Step]_vars

\* a poll has read both legs as FILLED and is about to decide
C35_Witness ==
    \E p \in 1..Len(ocoPairs) :
        /\ ocoMon[p].pc = "decide"
        /\ ocoMon[p].limit_status = "FILLED"
        /\ ocoMon[p].stop_status = "FILLED"
        /\ ocoPairs[p].status = "ACTIVE"

\* C36: with every gateway call returning and the execution thread scheduled
\* fairly, the thread of every registered TWAP job eventually terminates, and
\* from then on the job's status is COMPLETED, CANCELLED or FAILED, never
\* RUNNING
C36_Terminated(j) ==
    /\ j \in 1..Len(twapJobs)
    /\ twapTask[j].pc = "done"
    /\ twapJobs[j].status \in {"COMPLETED", "CANCELLED", "FAILED"}
C36_TaskTerminates ==
    /\ \A j \in 1..MaxJobs : (j \in 1..Len(twapJobs)) ~> C36_Terminated(j)
    /\ [][\A j \in 1..MaxJobs : C36_Terminated(j) => C36_Terminated(j)']_vars

\* a job whose thread ended after placing more than one slice
C36_Witness ==
    \E j \in 1..Len(twapJobs) :
        /\ twapTask[j].pc = "done"
        /\ twapJobs[j].status = "COMPLETED"
        /\ twapJobs[j].completed = twapJobs[j].parts
        /\ twapJobs[j].parts > 1

\* C37: with the monitoring thread scheduled fairly, an ACTIVE pair one of
\* whose legs is FILLED at the exchange eventually has the status
\* LIMIT_FILLED or STOP_FILLED with its monitoring thread ended, unless a
\* status query of the thread raised (which ends the thread for good)
C37_LegFilled(p) ==
    /\ p \in 1..Len(ocoPairs)
    /\ ocoPairs[p].status = "ACTIVE"
    /\ \/ orders[ocoPairs[p].limit_order].status = "FILLED"
       \/ orders[ocoPairs[p].stop_order].status = "FILLED"
C37_Settled(p) ==
    /\ p \in 1..Len(ocoPairs)
    /\ ocoPairs[p].status \in {"LIMIT_FILLED", "STOP_FILLED"}
    /\ ocoMon[p].pc = "done"
C37_QueryRaised(p) ==
    /\ p \in 1..Len(ocoPairs)
    /\ ocoMon[p].pc = "raised"
C37_FilledLegSettlesPair ==
    /\ \A p \in 1..MaxOCO :
         C37_LegFilled(p) ~> (C37_Settled(p) \/ C37_QueryRaised(p))
    /\ [][\A p \in 1..MaxOCO :
            /\ C37_Settled(p) => C37_Settled(p)'
            /\ C37_QueryRaised(p) => C37_QueryRaised(p)']_vars

\* a pair settled as STOP_FILLED on a filled stop leg, its thread ended
C37_Witness ==
    \E p \in 1..Len(ocoPairs) :
        /\ ocoPairs[p].status = "STOP_FILLED"
        /\ ocoMon[p].pc = "done"
        /\ orders[ocoPairs[p].stop_order].status = "FILLED"
        /\ orders[ocoPairs[p].limit_order].status = "CANCELED"

\* C38: on a strategy whose monitoring threads never end on a raised query
\* and on which stop is never called, a PLACED level of the RUNNING strategy
\* whose order is FILLED at the exchange is eventually marked FILLED; and the
\* step that marks a level FILLED counts it in total_trades and profit_loss
C38_NoStopNoRaise(s) ==
    /\ ~(gridCall.pc = "stop_cancel" /\ gridCall.strat = s)
    /\ s \in Strats => gridStrats[s].status # "STOPPED"
    /\ \A th \in BagToSet(gridMon) : ~(th.strat = s /\ th.pc = "raised")
C38_OrderFilled(s, k) ==
    /\ s \in Strats
    /\ k \in Levels(s)
    /\ gridStrats[s].status = "RUNNING"
    /\ gridStrats[s].grid_levels[k].status = "PLACED"
    /\ gridStrats[s].grid_levels[k].order_id # 0
    /\ gridOrders[gridStrats[s].grid_levels[k].order_id].status = "FILLED"
C38_Marked(s, k) ==
    /\ s \in Strats
    /\ k \in Levels(s)
    /\ gridStrats[s].grid_levels[k].status = "FILLED"
C38_Step ==
    \A s \in Strats :
        \A k \in Levels(s) :
            (gridStrats[s].grid_levels[k].status # "FILLED" /\ C38_Marked(s, k)')
              => gridStrats'[s] = Filled(gridStrats[s], k)
C38_FilledLevelIsMarked ==
    /\ \A s \in 1..(MaxGridWork \div 2) :
         \A k \in 1..(MaxGridWork \div 2) :
            []C38_NoStopNoRaise(s) => (C38_OrderFilled(s, k) ~> C38_Marked(s, k))
    /\ [][C38_Step]_vars

\* C39: a step of start_grid_strategy in which place_order raised leaves the
\* level as it was (a PENDING level stays PENDING with no order id) and the
\* active order count unchanged, and goes on to the next eligible level or,
\* after the last one, returns; every return of True has set the status to
\* RUNNING and started one monitoring thread; start on an unknown id returns
\* False having fetched no price and changed nothing
C39_PlaceRaised ==
    /\ gridCall.pc = "start_place"
    /\ gridCall' # gridCall
    /\ gridOrders' = gridOrders
C39_Step ==
    /\ C39_PlaceRaised =>
         LET s == gridCall.strat
             k == gridCall.k
             next == NextEligible(gridStrats[s].grid_levels, k + 1, gridCall.price)
         IN  /\ gridStrats'[s].grid_levels = gridStrats[s].grid_levels
             /\ gridStrats'[s].active_orders = gridStrats[s].active_orders
             /\ IF next # 0
                THEN /\ gridCall'.pc = "start_place"
                     /\ gridCall'.k = next
                     /\ gridCall'.failed
                ELSE /\ gridRet'.op = "start"
                     /\ gridRet'.result = "True"
                     /\ gridRet'.failed
    /\ (gridRet'.op = "start" /\ gridRet'.result = "True") =>
         LET s == grid_strategies[gridRet'.id]
         IN  /\ gridStrats'[s].status = "RUNNING"
             /\ gridMon' = gridMon (+) SetToBag({[strat |-> s, pc |-> "while",
                                                  k |-> 0, order |-> 0]})
             /\ gridCall' = GridIdle
    /\ (gridRet'.op = "start" /\ gridRet'.id \notin DOMAIN grid_strategies) =>
         /\ gridRet'.result = "False"
         /\ gridRet'.price = 0
         /\ gridCall.pc = "idle"
         /\ UNCHANGED <<gridStrats, grid_strategies, gridOrders, gridMon, gridCall>>
    /\ (gridRet'.op = "start" /\ gridRet'.result = "False") =>
         gridRet'.id \notin DOMAIN grid_strategies
====
